---- MODULE Spec2Model ----
(***************************************************************************)
(* WebChess: the rules engine (app/chess/rules/rules.py), the move         *)
(* generator (app/chess/engine/moves.py), the evaluator                    *)
(* (app/chess/engine/evaluate.py) and the search                           *)
(* (app/chess/engine/search.py), as operators computed the way the code    *)
(* computes them, and a client session that calls them.                    *)
(*                                                                         *)
(* Conventions.  A piece is its one-letter code; an empty square is None.  *)
(* A Move is the tuple of its four fields in declaration order             *)
(* <<from_file, from_rank, to_file, to_rank>>.  An absent tuple or record  *)
(* (Python None for an en-passant target, a king position, a capture       *)
(* square, a move) is Nil.  A castling-rights string is the sequence of    *)
(* its characters.  A Python list is a sequence, in the code's order.      *)
(***************************************************************************)
EXTENDS Integers, Sequences, FiniteSets, TLC

None == "None"
Nil == <<>>
IndexError == "IndexError"

----------------------------------------------------------------------------
(* Sequence helpers                                                        *)

\* the concatenation of ss[lo], ..., ss[hi], by halves
RECURSIVE ConcatRange(_, _, _)
ConcatRange(ss, lo, hi) ==
    IF lo > hi THEN <<>>
    ELSE IF lo = hi THEN ss[lo]
    ELSE ConcatRange(ss, lo, (lo + hi) \div 2)
         \o ConcatRange(ss, (lo + hi) \div 2 + 1, hi)

Concat(ss) == ConcatRange(ss, 1, Len(ss))

\* f[lo] + ... + f[hi], by halves
RECURSIVE Sum(_, _, _)
Sum(f, lo, hi) ==
    IF lo > hi THEN 0
    ELSE IF lo = hi THEN f[lo]
    ELSE Sum(f, lo, (lo + hi) \div 2) + Sum(f, (lo + hi) \div 2 + 1, hi)

Range(s) == {s[i] : i \in DOMAIN s}

Abs(n) == IF n < 0 THEN -n ELSE n

----------------------------------------------------------------------------
(* app/chess/base/board.py and move.py                                     *)

WhiteCodes == {"P", "N", "B", "R", "Q", "K"}
BlackCodes == {"p", "n", "b", "r", "q", "k"}
PieceCodes == WhiteCodes \cup BlackCodes

\* Piece.color: "white" if the code is upper case
color(piece) == IF piece \in WhiteCodes THEN "white" ELSE "black"

\* Piece.kind: the code in upper case
kind(piece) ==
    CASE piece \in {"P", "p"} -> "P"
      [] piece \in {"N", "n"} -> "N"
      [] piece \in {"B", "b"} -> "B"
      [] piece \in {"R", "r"} -> "R"
      [] piece \in {"Q", "q"} -> "Q"
      [] piece \in {"K", "k"} -> "K"
      [] OTHER -> piece

Move(ff, fr, tf, tr) == <<ff, fr, tf, tr>>
from_file(m) == m[1]
from_rank(m) == m[2]
to_file(m) == m[3]
to_rank(m) == m[4]

\* Board.piece_at: grid[rank][file]; a Python list takes an index in -8..7
\* (a negative one counts from the end) and raises IndexError otherwise
piece_at(b, file, rank) ==
    IF file \in -8..7 /\ rank \in -8..7 THEN b[rank % 8][file % 8] ELSE IndexError

\* Board.set_piece: grid[rank][file] = piece
set_piece(b, file, rank, piece) == [b EXCEPT ![rank % 8][file % 8] = piece]

\* a variant of clone that copies nothing: the copy shares every row with its
\* source (C9, C25 and C34 tell it from clone)
clone_shared(b) == [grid |-> b, alias |-> 0..7]

\* Board.clone: a new Board whose rows are new lists.  `alias` is the set of
\* ranks whose row storage the copy shares with its source.
clone(b) == [grid |-> b, alias |-> {}]

\* The source board of a clone after the clone's grid has become `mutated`.
source_after(b, cl, mutated) ==
    IF cl.alias = {} THEN b
    ELSE [r \in 0..7 |-> IF r \in cl.alias THEN mutated[r] ELSE b[r]]

opponent(c) == IF c = "white" THEN "black" ELSE "white"

\* A Piece object as Board.from_matrix builds it from a code and as
\* Board.to_matrix reads it: an object of its own that holds the code.  A
\* square of the grid without one holds Nil.
Piece(code) == <<code>>
code_of(piece) == piece[1]

\* Board.from_matrix: the grid of Piece objects of a matrix of codes
from_matrix(matrix) ==
    [rank \in DOMAIN matrix |-> [file \in DOMAIN matrix[rank] |->
        LET cell == matrix[rank][file]
        IN IF cell = None THEN Nil ELSE Piece(cell)]]

\* a variant of to_matrix that writes the kind of each piece, not its code
\* (C24 tells it from to_matrix)
to_matrix_of_kinds(grid) ==
    [rank \in DOMAIN grid |-> [file \in DOMAIN grid[rank] |->
        LET cell == grid[rank][file]
        IN IF cell # Nil THEN kind(code_of(cell)) ELSE None]]

\* Board.to_matrix: cell.code if cell else None
to_matrix(grid) ==
    [rank \in DOMAIN grid |-> [file \in DOMAIN grid[rank] |->
        LET cell == grid[rank][file]
        IN IF cell # Nil THEN code_of(cell) ELSE None]]

----------------------------------------------------------------------------
(* app/chess/rules/rules.py                                                *)

KNIGHT_STEPS ==
    << <<1, 2>>, <<2, 1>>, <<2, -1>>, <<1, -2>>,
       <<-1, -2>>, <<-2, -1>>, <<-2, 1>>, <<-1, 2>> >>
KING_STEPS ==
    << <<-1, -1>>, <<-1, 0>>, <<-1, 1>>, <<0, -1>>,
       <<0, 1>>, <<1, -1>>, <<1, 0>>, <<1, 1>> >>
DIAGONALS == << <<1, 1>>, <<1, -1>>, <<-1, 1>>, <<-1, -1>> >>
STRAIGHTS == << <<1, 0>>, <<-1, 0>>, <<0, 1>>, <<0, -1>> >>

\* a variant of in_bounds that checks the lower bounds only (C10 tells it
\* from in_bounds)
in_bounds_low(file, rank) == 0 <= file /\ 0 <= rank

in_bounds(file, rank) == 0 <= file /\ file < 8 /\ 0 <= rank /\ rank < 8

\* the directions list of a sliding piece
directions(piece) ==
    (IF kind(piece) \in {"B", "Q"} THEN DIAGONALS ELSE <<>>)
    \o (IF kind(piece) \in {"R", "Q"} THEN STRAIGHTS ELSE <<>>)

\* first king of colour c in rank-major scan order, or Nil
find_king(b, c) ==
    LET first(ks) ==
            IF ks = {} THEN Nil
            ELSE LET i == CHOOSE k \in ks : \A j \in ks : k <= j
                 IN <<i % 8, i \div 8>>
    IN first({i \in 0..63 :
                LET piece == piece_at(b, i % 8, i \div 8)
                IN piece # None /\ kind(piece) = "K" /\ color(piece) = c})

\* the steps of a knight or king that stay on the board
step_targets(file, rank, steps) ==
    SelectSeq([i \in 1..Len(steps) |->
                  Move(file, rank, file + steps[i][1], rank + steps[i][2])],
              LAMBDA m : in_bounds(to_file(m), to_rank(m)))

\* one direction of a slider's attack walk: every square up to and including
\* the first occupied one
RECURSIVE attack_ray(_, _, _, _, _, _, _)
attack_ray(b, file, rank, nf, nr, df, dr) ==
    IF ~in_bounds(nf, nr) THEN <<>>
    ELSE <<Move(file, rank, nf, nr)>>
         \o (IF piece_at(b, nf, nr) # None THEN <<>>
             ELSE attack_ray(b, file, rank, nf + df, nr + dr, df, dr))

attacked_squares_for_piece(b, file, rank, piece) ==
    CASE kind(piece) = "P" ->
           LET direction == IF color(piece) = "white" THEN -1 ELSE 1
           IN SelectSeq(<<Move(file, rank, file - 1, rank + direction),
                          Move(file, rank, file + 1, rank + direction)>>,
                        LAMBDA m : in_bounds(to_file(m), to_rank(m)))
      [] kind(piece) = "N" -> step_targets(file, rank, KNIGHT_STEPS)
      [] kind(piece) \in {"B", "R", "Q"} ->
           LET ds == directions(piece)
           IN Concat([i \in 1..Len(ds) |->
                        attack_ray(b, file, rank, file + ds[i][1], rank + ds[i][2],
                                   ds[i][1], ds[i][2])])
      [] kind(piece) = "K" -> step_targets(file, rank, KING_STEPS)
      [] OTHER -> <<>>

\* a variant of is_square_attacked that lets pieces of either colour attack
\* (C21 tells it from is_square_attacked)
is_square_attacked_by_any(b, file, rank, by_color) ==
    \E r \in 0..7 : \E f \in 0..7 :
        LET piece == piece_at(b, f, r)
        IN /\ piece # None
           /\ \E m \in Range(attacked_squares_for_piece(b, f, r, piece)) :
                  to_file(m) = file /\ to_rank(m) = rank

is_square_attacked(b, file, rank, by_color) ==
    \E r \in 0..7 : \E f \in 0..7 :
        LET piece == piece_at(b, f, r)
        IN /\ piece # None
           /\ color(piece) = by_color
           /\ \E m \in Range(attacked_squares_for_piece(b, f, r, piece)) :
                  to_file(m) = file /\ to_rank(m) = rank

is_in_check(b, c) ==
    LET attacked(king_pos) ==
            IF king_pos = Nil THEN FALSE
            ELSE is_square_attacked(b, king_pos[1], king_pos[2], opponent(c))
    IN attacked(find_king(b, c))

\* one direction of a slider's move walk: the empty squares, then the first
\* occupied one if it holds an enemy
RECURSIVE move_ray(_, _, _, _, _, _, _, _)
move_ray(b, file, rank, piece, nf, nr, df, dr) ==
    IF ~in_bounds(nf, nr) THEN <<>>
    ELSE LET target == piece_at(b, nf, nr)
         IN IF target = None
            THEN <<Move(file, rank, nf, nr)>>
                 \o move_ray(b, file, rank, piece, nf + df, nr + dr, df, dr)
            ELSE IF color(target) # color(piece)
                 THEN <<Move(file, rank, nf, nr)>>
                 ELSE <<>>

\* the steps of a knight or king onto an empty or enemy square
step_moves(b, file, rank, piece, steps) ==
    SelectSeq(step_targets(file, rank, steps),
              LAMBDA m : LET target == piece_at(b, to_file(m), to_rank(m))
                         IN target = None \/ color(target) # color(piece))

\* a variant of pawn_moves that steps onto the en-passant target only when
\* the target square is empty (C28 and C40 tell it from pawn_moves)
pawn_moves_onto_empty_target(b, file, rank, piece, ep) ==
    LET direction == IF color(piece) = "white" THEN -1 ELSE 1
        start_rank == IF color(piece) = "white" THEN 6 ELSE 1
        one_rank == rank + direction
        two_rank == rank + 2 * direction
        pushes ==
            IF in_bounds(file, one_rank) /\ piece_at(b, file, one_rank) = None
            THEN <<Move(file, rank, file, one_rank)>>
                 \o (IF rank = start_rank /\ piece_at(b, file, two_rank) = None
                     THEN <<Move(file, rank, file, two_rank)>>
                     ELSE <<>>)
            ELSE <<>>
        capture(df) ==
            LET capture_file == file + df
                target == piece_at(b, capture_file, one_rank)
            IN IF in_bounds(capture_file, one_rank)
               THEN (IF target # None /\ color(target) # color(piece)
                     THEN <<Move(file, rank, capture_file, one_rank)>>
                     ELSE <<>>)
                    \o (IF ep # Nil /\ <<capture_file, one_rank>> = ep
                           /\ target = None
                        THEN <<Move(file, rank, capture_file, one_rank)>>
                        ELSE <<>>)
               ELSE <<>>
    IN pushes \o capture(-1) \o capture(1)

\* the pawn branch of pseudo_legal_moves_for_piece
pawn_moves(b, file, rank, piece, ep) ==
    LET direction == IF color(piece) = "white" THEN -1 ELSE 1
        start_rank == IF color(piece) = "white" THEN 6 ELSE 1
        one_rank == rank + direction
        two_rank == rank + 2 * direction
        pushes ==
            IF in_bounds(file, one_rank) /\ piece_at(b, file, one_rank) = None
            THEN <<Move(file, rank, file, one_rank)>>
                 \o (IF rank = start_rank /\ piece_at(b, file, two_rank) = None
                     THEN <<Move(file, rank, file, two_rank)>>
                     ELSE <<>>)
            ELSE <<>>
        capture(df) ==
            LET capture_file == file + df
                target == piece_at(b, capture_file, one_rank)
            IN IF in_bounds(capture_file, one_rank)
               THEN (IF target # None /\ color(target) # color(piece)
                     THEN <<Move(file, rank, capture_file, one_rank)>>
                     ELSE <<>>)
                    \o (IF ep # Nil /\ <<capture_file, one_rank>> = ep
                        THEN <<Move(file, rank, capture_file, one_rank)>>
                        ELSE <<>>)
               ELSE <<>>
    IN pushes \o capture(-1) \o capture(1)

pseudo_legal_moves_for_piece(b, file, rank, piece, ep) ==
    CASE kind(piece) = "P" -> pawn_moves(b, file, rank, piece, ep)
      [] kind(piece) = "N" -> step_moves(b, file, rank, piece, KNIGHT_STEPS)
      [] kind(piece) \in {"B", "R", "Q"} ->
           LET ds == directions(piece)
           IN Concat([i \in 1..Len(ds) |->
                        move_ray(b, file, rank, piece, file + ds[i][1],
                                 rank + ds[i][2], ds[i][1], ds[i][2])])
      [] kind(piece) = "K" -> step_moves(b, file, rank, piece, KING_STEPS)
      [] OTHER -> <<>>

\* set(castling_rights) if castling_rights != "-" else set()
rights_set(cr) == IF cr = <<"-">> THEN {} ELSE Range(cr)

\* the (legal, reason, special) tuple is_legal_move returns; `board` is not
\* part of the tuple: it is the caller's board as the call leaves it
verdict(legal, reason, is_castle, is_en_passant, b) ==
    [legal |-> legal, reason |-> reason,
     special |-> [is_castle |-> is_castle, is_en_passant |-> is_en_passant],
     board |-> b]

\* a variant of castle_checks without the walk over the squares the king
\* crosses (C12 tells it from castle_checks)
castle_checks_uncrossed(b, move, c, cr) ==
    LET rights == rights_set(cr)
        rank == IF c = "white" THEN 7 ELSE 0
        king_side == IF c = "white" THEN "K" ELSE "k"
        queen_side == IF c = "white" THEN "Q" ELSE "q"
        rook_file == IF to_file(move) = 6 THEN 7 ELSE 0
        between == IF to_file(move) = 6 THEN <<5, 6>> ELSE <<1, 2, 3>>
        rook == piece_at(b, rook_file, rank)
    IN IF from_rank(move) # rank \/ to_rank(move) # rank THEN "illegal_castle"
       ELSE IF to_file(move) = 6 /\ king_side \notin rights THEN "castle_rights"
       ELSE IF to_file(move) = 2 /\ queen_side \notin rights THEN "castle_rights"
       ELSE IF to_file(move) \notin {6, 2} THEN "illegal_castle"
       ELSE IF rook = None \/ kind(rook) # "R" \/ color(rook) # c THEN "rook_missing"
       ELSE IF \E f \in Range(between) : piece_at(b, f, rank) # None
            THEN "castle_blocked"
       ELSE IF is_square_attacked(b, from_file(move), rank, opponent(c))
            THEN "king_in_check"
       ELSE "ok"

\* a variant of castle_checks that looks between king and rook before it
\* looks for the rook (C27 tells it from castle_checks)
castle_checks_blocked_first(b, move, c, cr) ==
    LET rights == rights_set(cr)
        rank == IF c = "white" THEN 7 ELSE 0
        king_side == IF c = "white" THEN "K" ELSE "k"
        queen_side == IF c = "white" THEN "Q" ELSE "q"
        rook_file == IF to_file(move) = 6 THEN 7 ELSE 0
        between == IF to_file(move) = 6 THEN <<5, 6>> ELSE <<1, 2, 3>>
        pass_through == IF to_file(move) = 6 THEN <<4, 5, 6>> ELSE <<4, 3, 2>>
        rook == piece_at(b, rook_file, rank)
    IN IF from_rank(move) # rank \/ to_rank(move) # rank THEN "illegal_castle"
       ELSE IF to_file(move) = 6 /\ king_side \notin rights THEN "castle_rights"
       ELSE IF to_file(move) = 2 /\ queen_side \notin rights THEN "castle_rights"
       ELSE IF to_file(move) \notin {6, 2} THEN "illegal_castle"
       ELSE IF \E f \in Range(between) : piece_at(b, f, rank) # None
            THEN "castle_blocked"
       ELSE IF rook = None \/ kind(rook) # "R" \/ color(rook) # c THEN "rook_missing"
       ELSE IF is_square_attacked(b, from_file(move), rank, opponent(c))
            THEN "king_in_check"
       ELSE IF \E f \in Range(Tail(pass_through)) :
                   is_square_attacked(b, f, rank, opponent(c))
            THEN "castle_through_check"
       ELSE "ok"

\* the castle branch of is_legal_move: the reason of the first failing check,
\* or "ok"
castle_checks(b, move, c, cr) ==
    LET rights == rights_set(cr)
        rank == IF c = "white" THEN 7 ELSE 0
        king_side == IF c = "white" THEN "K" ELSE "k"
        queen_side == IF c = "white" THEN "Q" ELSE "q"
        rook_file == IF to_file(move) = 6 THEN 7 ELSE 0
        between == IF to_file(move) = 6 THEN <<5, 6>> ELSE <<1, 2, 3>>
        pass_through == IF to_file(move) = 6 THEN <<4, 5, 6>> ELSE <<4, 3, 2>>
        rook == piece_at(b, rook_file, rank)
    IN IF from_rank(move) # rank \/ to_rank(move) # rank THEN "illegal_castle"
       ELSE IF to_file(move) = 6 /\ king_side \notin rights THEN "castle_rights"
       ELSE IF to_file(move) = 2 /\ queen_side \notin rights THEN "castle_rights"
       ELSE IF to_file(move) \notin {6, 2} THEN "illegal_castle"
       ELSE IF rook = None \/ kind(rook) # "R" \/ color(rook) # c THEN "rook_missing"
       ELSE IF \E f \in Range(between) : piece_at(b, f, rank) # None
            THEN "castle_blocked"
       ELSE IF is_square_attacked(b, from_file(move), rank, opponent(c))
            THEN "king_in_check"
       ELSE IF \E f \in Range(Tail(pass_through)) :
                   is_square_attacked(b, f, rank, opponent(c))
            THEN "castle_through_check"
       ELSE "ok"

\* a variant of basic_rejection that looks at the destination before the
\* colour of the mover (C11 tells it from basic_rejection)
basic_rejection_target_first(piece, target, c) ==
    IF piece = IndexError THEN IndexError
    ELSE IF piece = None THEN "no_piece"
    ELSE IF target = IndexError THEN IndexError
    ELSE IF target # None /\ color(target) = c THEN "occupied_by_ally"
    ELSE IF color(piece) # c THEN "wrong_color"
    ELSE "ok"

\* lines 321-329 of is_legal_move, after the bounds check: the reason of the
\* first rejection, or "ok"
basic_rejection(piece, target, c) ==
    IF piece = IndexError THEN IndexError
    ELSE IF piece = None THEN "no_piece"
    ELSE IF color(piece) # c THEN "wrong_color"
    ELSE IF target = IndexError THEN IndexError
    ELSE IF target # None /\ color(target) = c THEN "occupied_by_ally"
    ELSE "ok"

\* a variant of simulate that leaves the test board as it was (C1 and C37
\* tell it from simulate)
simulate_nothing(test_board, move, piece, is_castle, is_en_passant) == test_board

\* the simulation of is_legal_move on test_board: the passed pawn removed, the
\* castling rook relocated, the mover relocated
simulate(test_board, move, piece, is_castle, is_en_passant) ==
    LET rook_from == IF to_file(move) = 6 THEN 7 ELSE 0
        rook_to == IF to_file(move) = 6 THEN 5 ELSE 3
        passed(t) ==
            IF is_en_passant
            THEN set_piece(t, to_file(move), from_rank(move), None)
            ELSE t
        castled(t) ==
            IF is_castle
            THEN set_piece(set_piece(t, rook_to, from_rank(move),
                                     piece_at(t, rook_from, from_rank(move))),
                           rook_from, from_rank(move), None)
            ELSE t
        moved(t) ==
            set_piece(set_piece(t, to_file(move), to_rank(move), piece),
                      from_file(move), from_rank(move), None)
    IN moved(castled(passed(test_board)))

is_legal_move(b, move, c, cr, ep) ==
    IF ~in_bounds(from_file(move), from_rank(move))
       \/ ~in_bounds(to_file(move), to_rank(move))
    THEN verdict(FALSE, "out_of_bounds", FALSE, FALSE, b)
    ELSE
    LET piece == piece_at(b, from_file(move), from_rank(move))
        target == piece_at(b, to_file(move), to_rank(move))
        castle_attempt == /\ kind(piece) = "K"
                          /\ from_rank(move) = to_rank(move)
                          /\ Abs(to_file(move) - from_file(move)) = 2
        in_pseudo ==
            \E m \in Range(pseudo_legal_moves_for_piece(
                               b, from_file(move), from_rank(move), piece, ep)) :
                to_file(m) = to_file(move) /\ to_rank(m) = to_rank(move)
        is_castle == castle_attempt
        is_en_passant == /\ ~castle_attempt
                         /\ kind(piece) = "P"
                         /\ ep # Nil
                         /\ <<to_file(move), to_rank(move)>> = ep
                         /\ target = None
        \* lines 401-407, on the simulated test_board
        king_safety(after, test_board, king_pos) ==
            IF king_pos = Nil
            THEN verdict(FALSE, "king_missing", is_castle, is_en_passant, after)
            ELSE IF is_square_attacked(test_board, king_pos[1], king_pos[2],
                                       opponent(c))
                 THEN verdict(FALSE, "king_in_check", is_castle, is_en_passant,
                              after)
                 ELSE verdict(TRUE, "ok", is_castle, is_en_passant, after)
        \* lines 386-399
        simulated(cl, test_board) ==
            king_safety(source_after(b, cl, test_board), test_board,
                        find_king(test_board, c))
        \* lines 331-384
        movement(castle_reason) ==
            IF castle_attempt /\ castle_reason # "ok"
            THEN verdict(FALSE, castle_reason, FALSE, FALSE, b)
            ELSE IF ~castle_attempt /\ ~in_pseudo
                 THEN verdict(FALSE, "illegal_move", FALSE, FALSE, b)
                 ELSE simulated(clone(b),
                                simulate(clone(b).grid, move, piece, is_castle,
                                         is_en_passant))
        \* lines 321-329
        checked(rejection) ==
            IF rejection # "ok"
            THEN verdict(FALSE, rejection, FALSE, FALSE, b)
            ELSE movement(IF castle_attempt THEN castle_checks(b, move, c, cr)
                          ELSE "ok")
    IN checked(basic_rejection(piece, target, c))

\* a variant of king_flags that takes the flags of both colours (C13 tells
\* it from king_flags)
king_flags_of_both(moving_piece) ==
    IF kind(moving_piece) = "K" THEN {"K", "Q", "k", "q"} ELSE {}

\* a variant of king_flags by which a moving king keeps its rights (C38 tells
\* it from king_flags)
king_flags_of_none(moving_piece) == {}

\* lines 430-436 of update_castling_rights: the flags a moving king discards
king_flags(moving_piece) ==
    IF kind(moving_piece) = "K"
    THEN (IF color(moving_piece) = "white" THEN {"K", "Q"} ELSE {"k", "q"})
    ELSE {}

\* a variant of corner_flag that goes by the file alone (C20 tells it from
\* corner_flag)
corner_flag_of_file(pc, file, rank) ==
    IF color(pc) = "white"
    THEN (IF file = 0 THEN {"Q"} ELSE {}) \cup (IF file = 7 THEN {"K"} ELSE {})
    ELSE (IF file = 0 THEN {"q"} ELSE {}) \cup (IF file = 7 THEN {"k"} ELSE {})

\* lines 438-447 and 449-458 of update_castling_rights: the flag discarded for
\* a rook of colour color(pc) on the square (file, rank)
corner_flag(pc, file, rank) ==
    IF color(pc) = "white"
    THEN (IF file = 0 /\ rank = 7 THEN {"Q"} ELSE {})
         \cup (IF file = 7 /\ rank = 7 THEN {"K"} ELSE {})
    ELSE (IF file = 0 /\ rank = 0 THEN {"q"} ELSE {})
         \cup (IF file = 7 /\ rank = 0 THEN {"k"} ELSE {})

\* a variant of discard that toggles the flags: one that is absent comes back
\* (C36 tells it from discard)
discard_or_restore(rights, lost) == (rights \ lost) \cup (lost \ rights)

\* rights.discard, for each flag of `lost`
discard(rights, lost) == rights \ lost

update_castling_rights(cr, move, moving_piece, captured_piece) ==
    LET rights == rights_set(cr)
        king_lost == king_flags(moving_piece)
        rook_lost ==
            IF kind(moving_piece) = "R"
            THEN corner_flag(moving_piece, from_file(move), from_rank(move))
            ELSE {}
        captured_lost ==
            IF captured_piece # None /\ kind(captured_piece) = "R"
            THEN corner_flag(captured_piece, to_file(move), to_rank(move))
            ELSE {}
        left == discard(rights, king_lost \cup rook_lost \cup captured_lost)
        ordered == SelectSeq(<<"K", "Q", "k", "q">>, LAMBDA ch : ch \in left)
    IN IF ordered # <<>> THEN ordered ELSE <<"-">>

\* a variant of capture_square that reports the destination for every
\* capture (C14 tells it from capture_square)
capture_square_at_destination(move, is_en_passant, target) ==
    IF is_en_passant \/ target # None THEN <<to_file(move), to_rank(move)>>
    ELSE Nil

\* lines 494-501 of apply_move: capture_square
capture_square(move, is_en_passant, target) ==
    IF is_en_passant THEN <<to_file(move), from_rank(move)>>
    ELSE IF target # None THEN <<to_file(move), to_rank(move)>>
    ELSE Nil

\* a variant of remove_passed_pawn that removes nothing (C15 tells it from
\* remove_passed_pawn)
remove_nothing(t, move, is_en_passant) == t

\* a variant of remove_passed_pawn that clears the square for every move
\* (C35 tells it from remove_passed_pawn)
remove_beside_mover(t, move, is_en_passant) ==
    set_piece(t, to_file(move), from_rank(move), None)

\* lines 496-498 of apply_move: the square beside the mover, on the
\* destination file, is cleared when the move is en passant
remove_passed_pawn(t, move, is_en_passant) ==
    IF is_en_passant THEN set_piece(t, to_file(move), from_rank(move), None)
    ELSE t

\* a variant of promotes for the last rank of White alone (C19 tells it from
\* promotes)
promotes_on_rank_0(moving_piece, move) ==
    kind(moving_piece) = "P" /\ to_rank(move) = 0

\* lines 521-524 of apply_move: a pawn reaches the last rank of its colour
promotes(moving_piece, move) ==
    /\ kind(moving_piece) = "P"
    /\ \/ color(moving_piece) = "white" /\ to_rank(move) = 0
       \/ color(moving_piece) = "black" /\ to_rank(move) = 7

\* a variant of new_en_passant for any piece that moves two ranks (C16 and
\* C39 tell it from new_en_passant)
new_en_passant_of_any_piece(move, moving_piece) ==
    IF Abs(to_rank(move) - from_rank(move)) = 2
    THEN <<from_file(move),
           from_rank(move) + (IF color(moving_piece) = "white" THEN -1 ELSE 1)>>
    ELSE Nil

\* lines 531-534 of apply_move: new_en_passant
new_en_passant(move, moving_piece) ==
    IF kind(moving_piece) = "P" /\ Abs(to_rank(move) - from_rank(move)) = 2
    THEN <<from_file(move),
           from_rank(move) + (IF color(moving_piece) = "white" THEN -1 ELSE 1)>>
    ELSE Nil

\* a variant of new_halfmove that a capture alone resets (C17 tells it from
\* new_halfmove)
new_halfmove_of_captures(moving_piece, captured_at, hm) ==
    IF captured_at # Nil THEN 0 ELSE hm + 1

\* lines 536-537 of apply_move: new_halfmove
new_halfmove(moving_piece, captured_at, hm) ==
    IF kind(moving_piece) = "P" \/ captured_at # Nil THEN 0 ELSE hm + 1

\* a variant of new_fullmove that counts every move (C18 tells it from
\* new_fullmove)
new_fullmove_of_plies(c, fm) == fm + 1

\* line 538 of apply_move: new_fullmove
new_fullmove(c, fm) == IF c = "black" THEN fm + 1 ELSE fm

\* apply_move returns the pair (legal, result); `board` is not part of the pair:
\* it is the caller's board, which the call mutates in place, as the call
\* leaves it
apply_move(b, move, c, cr, ep, hm, fm) ==
    LET \* lines 492-552: v is the legal verdict, b0 the board it left
        mutate(v, b0) ==
            LET special == v.special
                moving_piece == piece_at(b0, from_file(move), from_rank(move))
                target0 == piece_at(b0, to_file(move), to_rank(move))
                captured_at ==
                    capture_square(move, special.is_en_passant, target0)
                target_piece ==
                    IF special.is_en_passant
                    THEN (IF c = "white" THEN "p" ELSE "P")
                    ELSE target0
                captured(t) == remove_passed_pawn(t, move, special.is_en_passant)
                moved(t) ==
                    set_piece(set_piece(t, to_file(move), to_rank(move),
                                        moving_piece),
                              from_file(move), from_rank(move), None)
                rook_from == IF to_file(move) = 6 THEN 7 ELSE 0
                rook_to == IF to_file(move) = 6 THEN 5 ELSE 3
                castled(t) ==
                    IF special.is_castle
                    THEN set_piece(set_piece(t, rook_to, from_rank(move),
                                             piece_at(t, rook_from,
                                                      from_rank(move))),
                                   rook_from, from_rank(move), None)
                    ELSE t
                castle_move ==
                    IF special.is_castle
                    THEN [rook_from |-> [file |-> rook_from,
                                         rank |-> from_rank(move)],
                          rook_to |-> [file |-> rook_to,
                                       rank |-> from_rank(move)]]
                    ELSE Nil
                promoting == promotes(moving_piece, move)
                new_code == IF color(moving_piece) = "white" THEN "Q" ELSE "q"
                promoted(t) ==
                    IF promoting
                    THEN set_piece(t, to_file(move), to_rank(move), new_code)
                    ELSE t
                promotion == IF promoting THEN "Q" ELSE None
                updated_castling ==
                    update_castling_rights(cr, move, moving_piece, target_piece)
                done(t) ==
                    [legal |-> TRUE,
                     result |-> [legal |-> TRUE,
                                 reason |-> "ok",
                                 board |-> t,
                                 castling |-> updated_castling,
                                 en_passant |->
                                     new_en_passant(move, moving_piece),
                                 halfmove |->
                                     new_halfmove(moving_piece, captured_at, hm),
                                 fullmove |-> new_fullmove(c, fm),
                                 capture |-> captured_at,
                                 castle |-> castle_move,
                                 promotion |-> promotion],
                     board |-> t]
            IN done(promoted(castled(moved(captured(b0)))))
        \* lines 488-490
        validated(v) ==
            IF ~v.legal
            THEN [legal |-> FALSE,
                  result |-> [legal |-> FALSE, reason |-> v.reason],
                  board |-> v.board]
            ELSE mutate(v, v.board)
    IN validated(is_legal_move(b, move, c, cr, ep))

\* a variant of candidates without the two castling probes (C2 tells it from
\* candidates)
candidates_without_castling(b, file, rank, piece, ep) ==
    pseudo_legal_moves_for_piece(b, file, rank, piece, ep)

\* the candidates legal_moves and has_any_legal_move try for one square
candidates(b, file, rank, piece, ep) ==
    pseudo_legal_moves_for_piece(b, file, rank, piece, ep)
    \o (IF kind(piece) = "K"
        THEN <<Move(file, rank, file + 2, rank), Move(file, rank, file - 2, rank)>>
        ELSE <<>>)

\* a variant of has_any_legal_move that asks for a candidate, legal or not
\* (C4 tells it from has_any_legal_move)
has_any_candidate(b, c, cr, ep) ==
    \E rank \in 0..7 : \E file \in 0..7 :
        LET piece == piece_at(b, file, rank)
        IN /\ piece # None
           /\ color(piece) = c
           /\ candidates(b, file, rank, piece, ep) # <<>>

has_any_legal_move(b, c, cr, ep) ==
    \E rank \in 0..7 : \E file \in 0..7 :
        LET piece == piece_at(b, file, rank)
        IN /\ piece # None
           /\ color(piece) = c
           /\ \E move \in Range(candidates(b, file, rank, piece, ep)) :
                  is_legal_move(b, move, c, cr, ep).legal

----------------------------------------------------------------------------
(* app/chess/engine/moves.py                                               *)

move_sort_key(move) ==
    <<from_file(move), from_rank(move), to_file(move), to_rank(move)>>

\* tuple comparison of Python: lexicographic
key_less(k1, k2) ==
    \E i \in 1..4 : k1[i] < k2[i] /\ \A j \in 1..(i - 1) : k1[j] = k2[j]

\* a variant of sorted that keeps the order it is given (C3 tells it from
\* sorted)
as_scanned(moves) == moves

\* sorted(moves, key=move_sort_key): a stable sort.  The i-th move lands
\* after the moves of smaller key and after the earlier moves of equal key;
\* place[i] is the number of those.
sorted(moves) ==
    LET before(i) ==
            {j \in 1..Len(moves) :
                \/ key_less(move_sort_key(moves[j]), move_sort_key(moves[i]))
                \/ move_sort_key(moves[j]) = move_sort_key(moves[i]) /\ j < i}
        arranged(place) ==
            <<>> \o [k \in 1..Len(moves) |->
                       moves[CHOOSE i \in 1..Len(moves) : place[i] = k - 1]]
    IN arranged(<<>> \o [i \in 1..Len(moves) |-> Cardinality(before(i))])

\* the moves of legal_moves before sorting, in scan order
scanned_moves(b, c, cr, ep) ==
    Concat([i \in 1..64 |->
        LET file == (i - 1) % 8
            rank == (i - 1) \div 8
            piece == piece_at(b, file, rank)
        IN IF piece = None \/ color(piece) # c THEN <<>>
           ELSE SelectSeq(candidates(b, file, rank, piece, ep),
                          LAMBDA move : is_legal_move(b, move, c, cr, ep).legal)])

\* a variant of legal_moves that keeps every candidate, legal or not (C5
\* tells it from legal_moves)
unfiltered_moves(b, c, cr, ep) ==
    sorted(Concat([i \in 1..64 |->
        LET file == (i - 1) % 8
            rank == (i - 1) \div 8
            piece == piece_at(b, file, rank)
        IN IF piece = None \/ color(piece) # c THEN <<>>
           ELSE candidates(b, file, rank, piece, ep)]))

legal_moves(b, c, cr, ep) == sorted(scanned_moves(b, c, cr, ep))

----------------------------------------------------------------------------
(* app/chess/engine/evaluate.py                                            *)

\* a variant of PIECE_VALUES that gives the king a value above every other
\* piece (C33 tells it from PIECE_VALUES)
PIECE_VALUES_with_king ==
    [P |-> 100, N |-> 320, B |-> 330, R |-> 500, Q |-> 900, K |-> 20000]

PIECE_VALUES ==
    [k \in {"P", "N", "B", "R", "Q", "K"} |->
        CASE k = "P" -> 100 [] k = "N" -> 320 [] k = "B" -> 330
          [] k = "R" -> 500 [] k = "Q" -> 900 [] k = "K" -> 0]

PAWN_TABLE ==
    << <<0, 0, 0, 0, 0, 0, 0, 0>>,
       <<5, 10, 10, -20, -20, 10, 10, 5>>,
       <<5, -5, -10, 0, 0, -10, -5, 5>>,
       <<0, 0, 0, 20, 20, 0, 0, 0>>,
       <<5, 5, 10, 25, 25, 10, 5, 5>>,
       <<10, 10, 20, 30, 30, 20, 10, 10>>,
       <<50, 50, 50, 50, 50, 50, 50, 50>>,
       <<0, 0, 0, 0, 0, 0, 0, 0>> >>
KNIGHT_TABLE ==
    << <<-50, -40, -30, -30, -30, -30, -40, -50>>,
       <<-40, -20, 0, 0, 0, 0, -20, -40>>,
       <<-30, 0, 10, 15, 15, 10, 0, -30>>,
       <<-30, 5, 15, 20, 20, 15, 5, -30>>,
       <<-30, 0, 15, 20, 20, 15, 0, -30>>,
       <<-30, 5, 10, 15, 15, 10, 5, -30>>,
       <<-40, -20, 0, 5, 5, 0, -20, -40>>,
       <<-50, -40, -30, -30, -30, -30, -40, -50>> >>
BISHOP_TABLE ==
    << <<-20, -10, -10, -10, -10, -10, -10, -20>>,
       <<-10, 0, 0, 0, 0, 0, 0, -10>>,
       <<-10, 0, 5, 10, 10, 5, 0, -10>>,
       <<-10, 5, 5, 10, 10, 5, 5, -10>>,
       <<-10, 0, 10, 10, 10, 10, 0, -10>>,
       <<-10, 10, 10, 10, 10, 10, 10, -10>>,
       <<-10, 5, 0, 0, 0, 0, 5, -10>>,
       <<-20, -10, -10, -10, -10, -10, -10, -20>> >>
ROOK_TABLE ==
    << <<0, 0, 0, 0, 0, 0, 0, 0>>,
       <<5, 10, 10, 10, 10, 10, 10, 5>>,
       <<-5, 0, 0, 0, 0, 0, 0, -5>>,
       <<-5, 0, 0, 0, 0, 0, 0, -5>>,
       <<-5, 0, 0, 0, 0, 0, 0, -5>>,
       <<-5, 0, 0, 0, 0, 0, 0, -5>>,
       <<-5, 0, 0, 0, 0, 0, 0, -5>>,
       <<0, 0, 0, 5, 5, 0, 0, 0>> >>
QUEEN_TABLE ==
    << <<-20, -10, -10, -5, -5, -10, -10, -20>>,
       <<-10, 0, 0, 0, 0, 0, 0, -10>>,
       <<-10, 0, 5, 5, 5, 5, 0, -10>>,
       <<-5, 0, 5, 5, 5, 5, 0, -5>>,
       <<0, 0, 5, 5, 5, 5, 0, -5>>,
       <<-10, 5, 5, 5, 5, 5, 0, -10>>,
       <<-10, 0, 5, 0, 0, 0, 0, -10>>,
       <<-20, -10, -10, -5, -5, -10, -10, -20>> >>
KING_TABLE ==
    << <<-30, -40, -40, -50, -50, -40, -40, -30>>,
       <<-30, -40, -40, -50, -50, -40, -40, -30>>,
       <<-30, -40, -40, -50, -50, -40, -40, -30>>,
       <<-30, -40, -40, -50, -50, -40, -40, -30>>,
       <<-20, -30, -30, -40, -40, -30, -30, -20>>,
       <<-10, -20, -20, -20, -20, -20, -20, -10>>,
       <<20, 20, 0, 0, 0, 0, 20, 20>>,
       <<20, 30, 10, 0, 0, 10, 30, 20>> >>

POSITION_TABLES ==
    [k \in {"P", "N", "B", "R", "Q", "K"} |->
        CASE k = "P" -> PAWN_TABLE [] k = "N" -> KNIGHT_TABLE
          [] k = "B" -> BISHOP_TABLE [] k = "R" -> ROOK_TABLE
          [] k = "Q" -> QUEEN_TABLE [] k = "K" -> KING_TABLE]

\* a variant of positional_bonus that reads the table the same way for both
\* colours (C26 tells it from positional_bonus)
positional_bonus_unmirrored(piece, file, rank) ==
    IF kind(piece) \notin DOMAIN POSITION_TABLES THEN 0
    ELSE POSITION_TABLES[kind(piece)][rank + 1][file + 1]

\* table[rank][file] for White, table[7 - rank][file] for Black; 0 for a kind
\* without a table
positional_bonus(piece, file, rank) ==
    IF kind(piece) \notin DOMAIN POSITION_TABLES THEN 0
    ELSE IF color(piece) = "white"
         THEN POSITION_TABLES[kind(piece)][rank + 1][file + 1]
         ELSE POSITION_TABLES[kind(piece)][(7 - rank) + 1][file + 1]

\* what the square i (rank-major) adds to the score of evaluate_board
contribution(b, i) ==
    LET file == i % 8
        rank == i \div 8
        piece == b[rank][file]
        value == IF kind(piece) \in DOMAIN PIECE_VALUES
                 THEN PIECE_VALUES[kind(piece)] ELSE 0
        bonus == positional_bonus(piece, file, rank)
    IN IF piece = None THEN 0
       ELSE IF color(piece) = "white" THEN value + bonus
       ELSE -(value + bonus)

evaluate_board(b) == Sum([i \in 0..63 |-> contribution(b, i)], 0, 63)

----------------------------------------------------------------------------
(* app/chess/engine/search.py                                              *)

MATE_SCORE == 100000

Max(x, y) == IF x >= y THEN x ELSE y
Min(x, y) == IF x <= y THEN x ELSE y

\* a variant of terminal_score that scores every mate as a mate of White
\* (C23 tells it from terminal_score)
terminal_score_of_white(b, c) ==
    IF is_in_check(b, c) THEN -MATE_SCORE ELSE 0

terminal_score(b, c) ==
    IF is_in_check(b, c)
    THEN (IF c = "white" THEN -MATE_SCORE ELSE MATE_SCORE)
    ELSE 0

\* a variant of apply_move_to_clone that forgets the en-passant target (C29
\* tells it from apply_move_to_clone)
apply_move_to_clone_without_target(b, move, c, cr, ep, hm, fm) ==
    LET returned(cl, applied) ==
            [state |-> IF ~applied.legal THEN Nil
                       ELSE <<applied.result.board, applied.result.castling,
                              applied.result.en_passant, applied.result.halfmove,
                              applied.result.fullmove>>,
             clone |-> cl,
             cloned |-> applied.board]
    IN returned(clone(b), apply_move(clone(b).grid, move, c, cr, Nil, hm, fm))

\* apply_move on a clone.  `state` is the returned tuple (next_board,
\* next_castling, next_en_passant, next_halfmove, next_fullmove) or Nil;
\* `clone` is the clone made and `cloned` its grid as apply_move leaves it.
apply_move_to_clone(b, move, c, cr, ep, hm, fm) ==
    LET returned(cl, applied) ==
            [state |-> IF ~applied.legal THEN Nil
                       ELSE <<applied.result.board, applied.result.castling,
                              applied.result.en_passant, applied.result.halfmove,
                              applied.result.fullmove>>,
             clone |-> cl,
             cloned |-> applied.board]
    IN returned(clone(b), apply_move(clone(b).grid, move, c, cr, ep, hm, fm))

\* a variant of count_children in which the node counts itself at every
\* child (C30 tells it from count_children)
count_children_and_self(nodes, child_nodes) == nodes + child_nodes + 1

\* `nodes += child_nodes` of search_best_move and of minimax
count_children(nodes, child_nodes) == nodes + child_nodes

\* a variant of prune that leaves the loop while the window is still open
\* (C7 tells it from prune)
prune_early(alpha, beta) == beta <= alpha + 20

\* `if beta <= alpha: break` of minimax
prune(alpha, beta) == beta <= alpha

\* a variant of improves that also takes an equal score (C6 tells it from
\* improves)
improves_or_ties(c, score, best_score) ==
    \/ best_score = Nil
    \/ c = "white" /\ score >= best_score[1]
    \/ c # "white" /\ score <= best_score[1]

\* the update of best_score and best_move in search_best_move: the first
\* score is taken, a later one only when it is strictly better for the mover
improves(c, score, best_score) ==
    \/ best_score = Nil
    \/ c = "white" /\ score > best_score[1]
    \/ c # "white" /\ score < best_score[1]

\* a variant of child_depth that reduces the depth by two (C32 tells it from
\* child_depth)
child_depth_by_two(depth) == depth - 2

\* the depth argument `depth - 1` of every call of minimax
child_depth(depth) == depth - 1

\* minimax returns (score, nodes); `board` is the board it was given as the
\* call leaves it.  loop[i] holds the variables of the `for move in moves`
\* loop after its i-th pass, `broke` telling that the loop has left by break.
RECURSIVE minimax(_, _, _, _, _, _, _, _, _)
minimax(b, c, cr, ep, hm, fm, depth, alpha, beta) ==
    LET pass(s, move) ==
            LET recursed(next_state, child) ==
                    LET value1 == IF c = "white" THEN Max(s.value, child.score)
                                  ELSE Min(s.value, child.score)
                        alpha1 == IF c = "white" THEN Max(s.alpha, value1)
                                  ELSE s.alpha
                        beta1 == IF c = "white" THEN s.beta
                                 ELSE Min(s.beta, value1)
                    IN [value |-> value1, alpha |-> alpha1, beta |-> beta1,
                        nodes |-> count_children(s.nodes, child.nodes),
                        broke |-> prune(alpha1, beta1),
                        board |-> source_after(s.board, next_state.clone,
                                               child.board)]
                applied(next_state) ==
                    IF next_state.state = Nil
                    THEN [s EXCEPT !.board =
                              source_after(s.board, next_state.clone,
                                           next_state.cloned)]
                    ELSE recursed(next_state,
                                  minimax(next_state.state[1], opponent(c),
                                          next_state.state[2],
                                          next_state.state[3],
                                          next_state.state[4],
                                          next_state.state[5],
                                          child_depth(depth), s.alpha, s.beta))
            IN IF s.broke THEN s
               ELSE applied(apply_move_to_clone(s.board, move, c, cr, ep, hm, fm))
        returned(s) == [score |-> s.value, nodes |-> s.nodes, board |-> s.board]
        node(moves) ==
            LET loop[i \in 0..Len(moves)] ==
                    IF i = 0
                    THEN [value |-> IF c = "white" THEN -MATE_SCORE
                                    ELSE MATE_SCORE,
                          alpha |-> alpha, beta |-> beta, nodes |-> 0,
                          broke |-> FALSE, board |-> b]
                    ELSE pass(loop[i - 1], moves[i])
            IN IF depth <= 0 \/ moves = <<>>
               THEN [score |-> IF moves = <<>> THEN terminal_score(b, c)
                               ELSE evaluate_board(b),
                     nodes |-> 1,
                     board |-> b]
               ELSE returned(loop[Len(moves)])
    IN node(legal_moves(b, c, cr, ep))

\* a variant of fallback_score that scores the position as a draw (C31 tells
\* it from fallback_score)
fallback_score_of_draw(b) == 0

\* `if best_score is None: best_score = evaluate_board(board)` of
\* search_best_move
fallback_score(b) == evaluate_board(b)

\* search_best_move from its line 48 on, for the list `moves` that
\* legal_moves has returned.  It returns (best_move, meta); `board` is the
\* board it was given as the call leaves it.  loop[i] holds the variables of
\* the `for move in moves` loop after its i-th pass; best_score is Nil (None)
\* or <<score>>.
search_over(b, c, cr, ep, hm, fm, depth, moves) ==
    LET pass(s, move) ==
            LET recursed(next_state, child) ==
                    LET better == improves(c, child.score, s.best_score)
                    IN [nodes |-> count_children(s.nodes, child.nodes),
                        best_move |-> IF better THEN move ELSE s.best_move,
                        best_score |-> IF better THEN <<child.score>>
                                       ELSE s.best_score,
                        board |-> source_after(s.board, next_state.clone,
                                               child.board)]
                applied(next_state) ==
                    IF next_state.state = Nil
                    THEN [s EXCEPT !.board =
                              source_after(s.board, next_state.clone,
                                           next_state.cloned)]
                    ELSE recursed(next_state,
                                  minimax(next_state.state[1], opponent(c),
                                          next_state.state[2],
                                          next_state.state[3],
                                          next_state.state[4],
                                          next_state.state[5],
                                          child_depth(depth), -MATE_SCORE,
                                          MATE_SCORE))
            \* the variables of the earlier passes are settled before this
            \* pass starts
            IN IF s.nodes < 0 THEN s
               ELSE applied(apply_move_to_clone(s.board, move, c, cr, ep, hm, fm))
        returned(s) ==
            [move |-> s.best_move,
             meta |-> [depth |-> depth, nodes |-> s.nodes,
                       score |-> IF s.best_score = Nil
                                 THEN fallback_score(s.board)
                                 ELSE s.best_score[1],
                       no_legal_moves |-> FALSE],
             board |-> s.board]
        loop[i \in 0..Len(moves)] ==
            IF i = 0
            THEN [nodes |-> 0, best_move |-> Nil, best_score |-> Nil,
                  board |-> b]
            ELSE pass(loop[i - 1], moves[i])
    IN IF moves = <<>>
       THEN [move |-> Nil,
             meta |-> [depth |-> depth, nodes |-> 1,
                       score |-> terminal_score(b, c),
                       no_legal_moves |-> TRUE],
             board |-> b]
       ELSE returned(loop[Len(moves)])

search_best_move(b, c, cr, ep, hm, fm, depth) ==
    search_over(b, c, cr, ep, hm, fm, depth, legal_moves(b, c, cr, ep))

\* The search one call at a time.  A frame is one activation of
\* search_best_move or minimax: its arguments, the list `moves` legal_moves
\* gave it, the number i of moves its loop has been through and the
\* variables of the loop.
Frame(fn, b, c, cr, ep, hm, fm, depth, alpha, beta) ==
    [fn |-> fn, b |-> b, c |-> c, cr |-> cr, ep |-> ep, hm |-> hm, fm |-> fm,
     depth |-> depth,
     moves |-> legal_moves(b, c, cr, ep),
     i |-> 0,
     alpha |-> alpha, beta |-> beta,
     value |-> IF c = "white" THEN -MATE_SCORE ELSE MATE_SCORE,
     nodes |-> 0,
     best_move |-> Nil, best_score |-> Nil,
     broke |-> FALSE]

\* `if depth <= 0 or not moves` of minimax
is_leaf(f) == f.fn = "minimax" /\ (f.depth <= 0 \/ f.moves = <<>>)

\* the `for move in moves` loop of the frame is over
loop_done(f) == f.i = Len(f.moves) \/ f.broke

\* what a minimax frame returns: (score, nodes)
minimax_result(f) ==
    IF is_leaf(f)
    THEN [score |-> IF f.moves = <<>> THEN terminal_score(f.b, f.c)
                    ELSE evaluate_board(f.b),
          nodes |-> 1]
    ELSE [score |-> f.value, nodes |-> f.nodes]

\* what the frame of search_best_move returns: (best_move, meta)
search_result(f) ==
    IF f.moves = <<>>
    THEN [move |-> Nil,
          meta |-> [depth |-> f.depth, nodes |-> 1,
                    score |-> terminal_score(f.b, f.c),
                    no_legal_moves |-> TRUE]]
    ELSE [move |-> f.best_move,
          meta |-> [depth |-> f.depth, nodes |-> f.nodes,
                    score |-> IF f.best_score = Nil THEN fallback_score(f.b)
                              ELSE f.best_score[1],
                    no_legal_moves |-> FALSE]]

\* the rest of a pass of the loop, once the call of minimax on moves[i + 1]
\* has returned `child`
resumed(f, child) ==
    IF f.fn = "minimax"
    THEN LET value1 == IF f.c = "white" THEN Max(f.value, child.score)
                       ELSE Min(f.value, child.score)
             alpha1 == IF f.c = "white" THEN Max(f.alpha, value1) ELSE f.alpha
             beta1 == IF f.c = "white" THEN f.beta ELSE Min(f.beta, value1)
         IN [f EXCEPT !.i = f.i + 1,
                      !.value = value1, !.alpha = alpha1, !.beta = beta1,
                      !.nodes = count_children(f.nodes, child.nodes),
                      !.broke = prune(alpha1, beta1)]
    ELSE LET better == improves(f.c, child.score, f.best_score)
         IN [f EXCEPT !.i = f.i + 1,
                      !.nodes = count_children(f.nodes, child.nodes),
                      !.best_move = IF better THEN f.moves[f.i + 1]
                                    ELSE f.best_move,
                      !.best_score = IF better THEN <<child.score>>
                                     ELSE f.best_score]

\* the start of a pass of the loop: the stack after apply_move_to_clone on
\* moves[i + 1], with `continue` when it returns None and the call of minimax
\* on the child position otherwise
entered(stack, f, next_state) ==
    IF next_state.state = Nil
    THEN [stack EXCEPT ![Len(stack)] = [f EXCEPT !.i = f.i + 1]]
    ELSE Append(stack,
                Frame("minimax", next_state.state[1], opponent(f.c),
                      next_state.state[2], next_state.state[3],
                      next_state.state[4], next_state.state[5],
                      child_depth(f.depth),
                      IF f.fn = "minimax" THEN f.alpha ELSE -MATE_SCORE,
                      IF f.fn = "minimax" THEN f.beta ELSE MATE_SCORE))

----------------------------------------------------------------------------
(* app/api/helpers.py: the search depths a request may ask for             *)

ENGINE_MIN_DEPTH == 1
ENGINE_MAX_DEPTH == 4
ENGINE_DEFAULT_DEPTH == 2

\* a variant of winner_of_checkmate that names the side that is mated (C22
\* tells it from winner_of_checkmate)
winner_is_next_turn(next_turn) == next_turn

\* build_validate_response, line 84: the winner of a checkmate
winner_of_checkmate(next_turn) ==
    IF next_turn = "black" THEN "white" ELSE "black"

\* build_validate_response for the side c that moved and the result of
\* apply_move; the notation and the FEN string of the response are left out
build_validate_response(move, c, result) ==
    LET next_turn == IF c = "white" THEN "black" ELSE "white"
        in_check == is_in_check(result.board, next_turn)
        has_moves == has_any_legal_move(result.board, next_turn,
                                        result.castling, result.en_passant)
        game_over == ~has_moves
        outcome == IF game_over
                   THEN (IF in_check THEN "checkmate" ELSE "stalemate")
                   ELSE None
        winner == IF game_over /\ in_check
                  THEN winner_of_checkmate(next_turn)
                  ELSE None
    IN [legal |-> TRUE,
        reason |-> "ok",
        castling |-> result.castling,
        en_passant |-> result.en_passant,
        halfmove |-> result.halfmove,
        fullmove |-> result.fullmove,
        capture |-> result.capture,
        castle |-> result.castle,
        promotion |-> result.promotion,
        check |-> in_check,
        game_over |-> game_over,
        outcome |-> outcome,
        winner |-> winner]

\* routes.py validate_move: the response of POST /validate; the fields a
\* rejection leaves out take the defaults of ValidateResponse
validate_move(b, move, c, cr, ep, hm, fm) ==
    LET respond(applied) ==
            IF ~applied.legal
            THEN [legal |-> FALSE,
                  reason |-> applied.result.reason,
                  castling |-> None,
                  en_passant |-> None,
                  halfmove |-> None,
                  fullmove |-> None,
                  capture |-> None,
                  castle |-> None,
                  promotion |-> None,
                  check |-> FALSE,
                  game_over |-> FALSE,
                  outcome |-> None,
                  winner |-> None]
            ELSE build_validate_response(move, c, applied.result)
    IN respond(apply_move(b, move, c, cr, ep, hm, fm))

----------------------------------------------------------------------------
(* The client session: it holds a position and the search depth it asks    *)
(* for, calls one operation of the core on them, and continues from what   *)
(* the call returned.  While a call is out, `call` names it and `ret` is   *)
(* what it returned; the position is the one the call was made on.         *)

VARIABLES board, turn, castling, en_passant, halfmove, fullmove,
          engine_depth, ply, call, ret

position == <<board, turn, castling, en_passant, halfmove, fullmove>>
vars == <<board, turn, castling, en_passant, halfmove, fullmove,
          engine_depth, ply, call, ret>>

\* the moves a session plays from its first position
MaxPly == 1
\* the engine moves a search session plays from its first position
MaxEnginePly == 1

\* tests/conftest.py board_from_positions: {(file, rank): code} on an empty grid
board_from_positions(positions) ==
    [r \in 0..7 |-> [f \in 0..7 |->
        IF \E p \in positions : p[1] = f /\ p[2] = r
        THEN (CHOOSE p \in positions : p[1] = f /\ p[2] = r)[3]
        ELSE None]]

Pos(pieces, t, cr, ep) ==
    [pieces |-> pieces, turn |-> t, castling |-> cr, en_passant |-> ep]


\* positions the rules are called on
RulesPositions ==
    { \* White may castle both ways, Black queenside; no rook stands behind
      \* Black's kingside right
      Pos({<<4, 7, "K">>, <<0, 7, "R">>, <<7, 7, "R">>,
           <<4, 0, "k">>, <<0, 0, "r">>},
          "white", <<"K", "Q", "k", "q">>, Nil),
      \* tests/test_rules.py test_en_passant_capture
      Pos({<<4, 3, "P">>, <<3, 3, "p">>, <<4, 7, "K">>, <<0, 0, "k">>},
          "white", <<"-">>, <<3, 2>>),
      \* tests/test_rules.py test_promotion_*: a pawn one step from promotion
      Pos({<<0, 1, "P">>, <<4, 7, "K">>, <<7, 0, "k">>},
          "white", <<"-">>, Nil),
      \* a rook pinned on its king; Black has no king
      Pos({<<4, 7, "K">>, <<4, 6, "R">>, <<4, 0, "r">>},
          "white", <<"-">>, Nil),
      Pos({<<4, 7, "K">>, <<4, 6, "R">>, <<4, 0, "r">>},
          "black", <<"-">>, Nil),
      \* tests/test_rules.py checkmate and stalemate of Black; the stalemated
      \* king stands on a8 with a queenside right that no rook backs
      Pos({<<0, 0, "k">>, <<2, 2, "K">>, <<1, 1, "Q">>},
          "black", <<"-">>, Nil),
      Pos({<<0, 0, "k">>, <<2, 2, "K">>, <<1, 2, "Q">>},
          "black", <<"q">>, Nil),
      \* the king would castle through an attacked square; no rook on a1
      Pos({<<4, 7, "K">>, <<7, 7, "R">>, <<5, 5, "r">>, <<0, 0, "k">>},
          "white", <<"K", "Q">>, Nil) }

\* positions the engine searches, with the depths asked for on each
Request(pieces, t, cr, ep, depths) ==
    [pieces |-> pieces, turn |-> t, castling |-> cr, en_passant |-> ep,
     depths |-> depths]

AllDepths == ENGINE_MIN_DEPTH..ENGINE_MAX_DEPTH
MidDepths == ENGINE_MIN_DEPTH..(ENGINE_MAX_DEPTH - 1)
LowDepths == ENGINE_MIN_DEPTH..ENGINE_DEFAULT_DEPTH

SearchRequests ==
    { \* c7-c8 promotes and mates; Black to move is stalemated
      Request({<<0, 0, "k">>, <<1, 2, "K">>, <<2, 1, "P">>},
              "white", <<"-">>, Nil, AllDepths),
      Request({<<0, 0, "k">>, <<1, 2, "K">>, <<2, 1, "P">>},
              "black", <<"-">>, Nil, AllDepths),
      \* checkmate and stalemate of Black
      Request({<<0, 0, "k">>, <<2, 2, "K">>, <<1, 1, "Q">>},
              "black", <<"-">>, Nil, AllDepths),
      Request({<<0, 0, "k">>, <<2, 2, "K">>, <<1, 2, "Q">>},
              "black", <<"-">>, Nil, AllDepths),
      \* bare kings in opposite corners
      Request({<<0, 7, "K">>, <<7, 0, "k">>}, "black", <<"-">>, Nil, MidDepths),
      Request({<<0, 7, "K">>, <<7, 0, "k">>}, "white", <<"-">>, Nil, MidDepths),
      \* a black pawn about to promote beside the white king
      Request({<<0, 7, "K">>, <<7, 0, "k">>, <<1, 6, "p">>},
              "black", <<"-">>, Nil, AllDepths),
      Request({<<0, 7, "K">>, <<7, 0, "k">>, <<1, 6, "p">>},
              "white", <<"-">>, Nil, LowDepths),
      \* two pawns that can capture each other
      Request({<<0, 7, "K">>, <<7, 0, "k">>, <<3, 4, "P">>, <<4, 3, "p">>},
              "white", <<"-">>, Nil, MidDepths),
      Request({<<0, 7, "K">>, <<7, 0, "k">>, <<3, 4, "P">>, <<4, 3, "p">>},
              "black", <<"-">>, Nil, LowDepths),
      \* king and pawn against king
      Request({<<4, 6, "P">>, <<4, 7, "K">>, <<4, 0, "k">>},
              "white", <<"-">>, Nil, LowDepths),
      Request({<<4, 6, "P">>, <<4, 7, "K">>, <<4, 0, "k">>},
              "black", <<"-">>, Nil, LowDepths),
      \* king and knight against king
      Request({<<0, 7, "K">>, <<7, 0, "k">>, <<1, 7, "N">>},
              "white", <<"-">>, Nil, LowDepths),
      \* an en-passant capture is on offer
      Request({<<4, 3, "P">>, <<3, 3, "p">>, <<4, 7, "K">>, <<0, 0, "k">>},
              "white", <<"-">>, <<3, 2>>, LowDepths),
      \* castling is on offer
      Request({<<4, 7, "K">>, <<7, 7, "R">>, <<4, 0, "k">>},
              "white", <<"K">>, Nil, LowDepths),
      \* the queen mates in one
      Request({<<0, 0, "k">>, <<2, 2, "K">>, <<1, 3, "Q">>},
              "white", <<"-">>, Nil, LowDepths),
      \* checkmate of White
      Request({<<0, 7, "K">>, <<2, 5, "k">>, <<1, 6, "q">>},
              "white", <<"-">>, Nil, LowDepths) }

\* positions a game is played from, one move after another
GamePositions ==
    { \* White may castle kingside, Black queenside
      Pos({<<4, 7, "K">>, <<7, 7, "R">>, <<4, 0, "k">>, <<0, 0, "r">>},
          "white", <<"K", "q">>, Nil),
      \* Black may castle kingside, White queenside
      Pos({<<4, 7, "K">>, <<0, 7, "R">>, <<4, 0, "k">>, <<7, 0, "r">>},
          "black", <<"Q", "k">>, Nil),
      \* e2-e4 passes the black pawn on d4
      Pos({<<4, 6, "P">>, <<3, 4, "p">>, <<0, 7, "K">>, <<7, 0, "k">>},
          "white", <<"-">>, Nil),
      \* d7-d5 passes the white pawn on e5
      Pos({<<3, 1, "p">>, <<4, 3, "P">>, <<0, 7, "K">>, <<7, 0, "k">>},
          "black", <<"-">>, Nil),
      \* a pawn of each side one step from promotion, by a push or a capture
      Pos({<<0, 1, "P">>, <<1, 0, "r">>, <<7, 6, "p">>, <<6, 7, "N">>,
           <<4, 7, "K">>, <<4, 2, "k">>},
          "white", <<"-">>, Nil),
      \* a request whose en-passant target no pawn has passed
      Pos({<<4, 3, "P">>, <<0, 7, "K">>, <<7, 0, "k">>},
          "white", <<"-">>, <<3, 2>>),
      \* king and rook of White on their home squares with the rights gone,
      \* and a knight beside the king
      Pos({<<4, 7, "K">>, <<7, 7, "R">>, <<3, 7, "N">>, <<4, 0, "k">>},
          "white", <<"-">>, Nil) }

\* the rights strings update_castling_rights is called on: every selection
\* of "KQkq" in that order, "-", and one string out of order
RightsInputs ==
    {SelectSeq(<<"K", "Q", "k", "q">>, LAMBDA ch : ch \in keep) :
        keep \in (SUBSET {"K", "Q", "k", "q"}) \ {{}}}
    \cup {<<"-">>, <<"q", "K">>}

\* the squares its moves run between: the corners, the kings' squares and
\* two squares on the rook files
RightsSquares ==
    {<<0, 0>>, <<7, 0>>, <<0, 7>>, <<7, 7>>, <<4, 0>>, <<4, 7>>, <<0, 4>>,
     <<7, 3>>}
RightsMovers == {"K", "k", "R", "r", "N", "p"}
RightsCaptives == {None, "R", "r", "Q", "n"}

Idle == [op |-> "idle", move |-> Nil]

Init ==
    /\ \E p \in RulesPositions :
          /\ board = board_from_positions(p.pieces)
          /\ turn = p.turn
          /\ castling = p.castling
          /\ en_passant = p.en_passant
    /\ halfmove = 0
    /\ fullmove = 1
    /\ engine_depth = ENGINE_DEFAULT_DEPTH
    /\ ply = 0
    /\ call = Idle
    /\ ret = Nil

InitSearch ==
    /\ \E r \in SearchRequests :
          /\ board = board_from_positions(r.pieces)
          /\ turn = r.turn
          /\ castling = r.castling
          /\ en_passant = r.en_passant
          /\ engine_depth \in r.depths
    /\ halfmove = 0
    /\ fullmove = 1
    /\ ply = 0
    /\ call = Idle
    /\ ret = Nil

InitGame ==
    /\ \E p \in GamePositions :
          /\ board = board_from_positions(p.pieces)
          /\ turn = p.turn
          /\ castling = p.castling
          /\ en_passant = p.en_passant
    /\ halfmove = 0
    /\ fullmove = 1
    /\ engine_depth = ENGINE_DEFAULT_DEPTH
    /\ ply = 0
    /\ call = Idle
    /\ ret = Nil

InitRights ==
    /\ board = board_from_positions({})
    /\ turn = "white"
    /\ castling \in RightsInputs
    /\ en_passant = Nil
    /\ halfmove = 0
    /\ fullmove = 1
    /\ engine_depth = ENGINE_DEFAULT_DEPTH
    /\ ply = 0
    /\ call = Idle
    /\ ret = Nil

Squares == {<<f, r>> : f \in 0..7, r \in 0..7}

\* moves a caller asks about: from any occupied square to any square, and a
\* few from empty squares and from or to squares off the board
ProbeMoves ==
    {Move(-1, 0, 0, 0), Move(0, 0, 8, 0), Move(0, 8, 0, 0), Move(0, 0, 0, -1),
     Move(8, 8, 8, 8), Move(2, 4, 2, 3), Move(5, 5, 5, 5)}
MoveInputs ==
    {Move(s[1], s[2], t[1], t[2]) :
        s \in {q \in Squares : board[q[2]][q[1]] # None}, t \in Squares}
    \cup ProbeMoves

CallIsLegalMove ==
    /\ call = Idle
    /\ \E m \in MoveInputs :
          /\ call' = [op |-> "is_legal_move", move |-> m]
          /\ ret' = is_legal_move(board, m, turn, castling, en_passant)
    /\ UNCHANGED <<position, engine_depth, ply>>

CallApplyMove ==
    /\ call = Idle
    /\ \E m \in MoveInputs :
          /\ call' = [op |-> "apply_move", move |-> m]
          /\ ret' = apply_move(board, m, turn, castling, en_passant,
                               halfmove, fullmove)
    /\ UNCHANGED <<position, engine_depth, ply>>

CallLegalMoves ==
    /\ call = Idle
    /\ call' = [op |-> "legal_moves", move |-> Nil]
    /\ ret' = legal_moves(board, turn, castling, en_passant)
    /\ UNCHANGED <<position, engine_depth, ply>>

CallHasAnyLegalMove ==
    /\ call = Idle
    /\ call' = [op |-> "has_any_legal_move", move |-> Nil]
    /\ ret' = has_any_legal_move(board, turn, castling, en_passant)
    /\ UNCHANGED <<position, engine_depth, ply>>

CallSearchBestMove ==
    /\ call = Idle
    /\ call' = [op |-> "search_best_move", move |-> Nil]
    /\ ret' = search_best_move(board, turn, castling, en_passant,
                               halfmove, fullmove, engine_depth)
    /\ UNCHANGED <<position, engine_depth, ply>>

\* the call search_best_move makes on each child, made on the position itself
CallMinimax ==
    /\ call = Idle
    /\ call' = [op |-> "minimax", move |-> Nil]
    /\ ret' = minimax(board, turn, castling, en_passant, halfmove, fullmove,
                      engine_depth - 1, -MATE_SCORE, MATE_SCORE)
    /\ UNCHANGED <<position, engine_depth, ply>>

\* the call apply_move makes once the move is through, made on the rights
\* themselves
CallUpdateCastlingRights ==
    /\ call = Idle
    /\ \E s \in RightsSquares, t \in RightsSquares,
          mp \in RightsMovers, cp \in RightsCaptives :
          /\ call' = [op |-> "update_castling_rights",
                      move |-> Move(s[1], s[2], t[1], t[2]),
                      moving_piece |-> mp, captured_piece |-> cp]
          /\ ret' = update_castling_rights(castling, Move(s[1], s[2], t[1], t[2]),
                                           mp, cp)
    /\ UNCHANGED <<position, engine_depth, ply>>

\* the position a successful apply_move returned
continue_with(result) ==
    /\ board' = result.board
    /\ turn' = opponent(turn)
    /\ castling' = result.castling
    /\ en_passant' = result.en_passant
    /\ halfmove' = result.halfmove
    /\ fullmove' = result.fullmove

\* the caller of a successful apply_move continues with the returned state
Advance ==
    /\ call.op = "apply_move"
    /\ ret.legal
    /\ ply < MaxPly
    /\ continue_with(ret.result)
    /\ ply' = ply + 1
    /\ call' = Idle
    /\ ret' = Nil
    /\ UNCHANGED engine_depth

\* the caller of a search plays the move the engine chose
PlayEngineMove ==
    /\ call.op = "search_best_move"
    /\ ret.move # Nil
    /\ ply < MaxEnginePly
    /\ continue_with(apply_move(board, ret.move, turn, castling, en_passant,
                                halfmove, fullmove).result)
    /\ ply' = ply + 1
    /\ call' = Idle
    /\ ret' = Nil
    /\ UNCHANGED engine_depth

\* the caller of anything else keeps its position
Return ==
    /\ call # Idle
    /\ call' = Idle
    /\ ret' = Nil
    /\ UNCHANGED <<position, engine_depth, ply>>

Next ==
    \/ CallIsLegalMove
    \/ CallApplyMove
    \/ CallLegalMoves
    \/ CallHasAnyLegalMove
    \/ Advance
    \/ Return

Spec == Init /\ [][Next]_vars

NextSearch ==
    \/ CallSearchBestMove
    \/ CallMinimax
    \/ PlayEngineMove
    \/ Return

SpecSearch == InitSearch /\ [][NextSearch]_vars

\* the search and its nodes called on the requests themselves
NextTree ==
    \/ CallSearchBestMove
    \/ CallMinimax
    \/ Return

SpecTree == InitSearch /\ [][NextTree]_vars

\* tests/test_search.py test_search_best_move_falls_back_to_evaluate_on_
\* invalid_moves: the lists a patched legal_moves returns, of moves that
\* cannot be applied on the position
FakeMoves ==
    {m \in ProbeMoves \cup {Move(0, 0, 0, 1), Move(4, 7, 4, 0), Move(0, 7, 7, 0)} :
        ~is_legal_move(board, m, turn, castling, en_passant).legal}
FakeMoveLists == {<<m>> : m \in FakeMoves} \cup (FakeMoves \X FakeMoves)

\* the same test: search_best_move runs with legal_moves patched to return
\* such a list; no move of it is applied, so minimax is not reached
CallSearchOverFakeMoves ==
    /\ call = Idle
    /\ \E moves \in FakeMoveLists :
          /\ call' = [op |-> "search_over_fake_moves", move |-> Nil,
                      moves |-> moves]
          /\ ret' = search_over(board, turn, castling, en_passant, halfmove,
                                fullmove, engine_depth, moves)
    /\ UNCHANGED <<position, engine_depth, ply>>

NextFallback ==
    \/ CallSearchOverFakeMoves
    \/ Return

SpecFallback == InitSearch /\ [][NextFallback]_vars

NextGame ==
    \/ CallApplyMove
    \/ Advance
    \/ Return

SpecGame == InitGame /\ [][NextGame]_vars

NextRights ==
    \/ CallUpdateCastlingRights
    \/ Return

SpecRights == InitRights /\ [][NextRights]_vars

\* positions the rules are asked about without a move being played: castling
\* attempts that fail each check, pawns beside an en-passant target, kings
\* attacked by each kind of piece
ProbePositions ==
    { \* the king stands off its home rank
      Pos({<<4, 6, "K">>, <<7, 7, "R">>, <<0, 7, "R">>, <<4, 0, "k">>},
          "white", <<"K", "Q">>, Nil),
      \* the king stands on its home rank two files from neither castle square
      Pos({<<3, 7, "K">>, <<7, 7, "R">>, <<0, 7, "R">>, <<4, 0, "k">>},
          "white", <<"K", "Q">>, Nil),
      \* the kingside right is missing; Black's rights do not help White
      Pos({<<4, 7, "K">>, <<7, 7, "R">>, <<0, 7, "R">>, <<4, 0, "k">>},
          "white", <<"Q", "k">>, Nil),
      \* no rook on h1 and f1 occupied; b1 occupied before the rook on a1
      Pos({<<4, 7, "K">>, <<5, 7, "B">>, <<0, 7, "R">>, <<1, 7, "N">>,
           <<4, 0, "k">>},
          "white", <<"K", "Q">>, Nil),
      \* a black rook on h1 and a knight on a1
      Pos({<<4, 7, "K">>, <<7, 7, "r">>, <<0, 7, "N">>, <<0, 0, "k">>},
          "white", <<"K", "Q">>, Nil),
      \* the king is in check; b1 is occupied as well
      Pos({<<4, 7, "K">>, <<7, 7, "R">>, <<0, 7, "R">>, <<1, 7, "N">>,
           <<4, 0, "r">>, <<0, 0, "k">>},
          "white", <<"K", "Q">>, Nil),
      \* f1 is attacked, and b1, which the king does not cross
      Pos({<<4, 7, "K">>, <<7, 7, "R">>, <<0, 7, "R">>, <<5, 0, "r">>,
           <<1, 0, "r">>, <<7, 0, "k">>},
          "white", <<"K", "Q">>, Nil),
      \* g1 is attacked
      Pos({<<4, 7, "K">>, <<7, 7, "R">>, <<0, 7, "R">>, <<6, 0, "r">>,
           <<0, 0, "k">>},
          "white", <<"K", "Q">>, Nil),
      \* Black: d8 is attacked, the kingside is free
      Pos({<<4, 0, "k">>, <<7, 0, "r">>, <<0, 0, "r">>, <<3, 7, "R">>,
           <<7, 7, "K">>},
          "black", <<"k", "q">>, Nil),
      \* Black: the queenside right is missing, a white knight stands on h8
      Pos({<<4, 0, "k">>, <<7, 0, "N">>, <<0, 0, "r">>, <<4, 7, "K">>},
          "black", <<"K", "Q", "k">>, Nil),
      \* tests/test_rules.py test_pseudo_legal_pawn_en_passant_target, and a
      \* pawn to capture on the other side
      Pos({<<4, 3, "P">>, <<3, 3, "p">>, <<5, 2, "n">>, <<4, 7, "K">>,
           <<4, 0, "k">>},
          "white", <<"-">>, <<3, 2>>),
      \* a request whose en-passant target holds a piece of the mover
      Pos({<<4, 3, "P">>, <<3, 2, "N">>, <<5, 2, "B">>, <<4, 7, "K">>,
           <<4, 0, "k">>},
          "white", <<"-">>, <<3, 2>>),
      \* a request whose en-passant target holds an enemy piece
      Pos({<<4, 3, "P">>, <<3, 2, "n">>, <<4, 7, "K">>, <<4, 0, "k">>},
          "white", <<"-">>, <<3, 2>>),
      \* Black: an en-passant target that holds a black piece
      Pos({<<3, 4, "p">>, <<4, 5, "b">>, <<0, 7, "K">>, <<7, 0, "k">>},
          "black", <<"-">>, <<4, 5>>),
      \* a knight and a pawn give check, a bishop is screened
      Pos({<<4, 7, "K">>, <<5, 5, "n">>, <<0, 0, "k">>, <<1, 1, "P">>,
           <<3, 3, "B">>, <<2, 2, "p">>},
          "white", <<"-">>, Nil),
      \* no white king; the black king is screened from a queen on its file
      \* and attacked by a bishop
      Pos({<<4, 0, "k">>, <<4, 2, "p">>, <<4, 4, "Q">>, <<7, 3, "B">>},
          "black", <<"-">>, Nil),
      \* the kings stand side by side
      Pos({<<4, 4, "K">>, <<4, 3, "k">>, <<0, 4, "q">>, <<2, 4, "P">>},
          "white", <<"-">>, Nil) }

InitProbe ==
    /\ \E p \in ProbePositions :
          /\ board = board_from_positions(p.pieces)
          /\ turn = p.turn
          /\ castling = p.castling
          /\ en_passant = p.en_passant
    /\ halfmove = 0
    /\ fullmove = 1
    /\ engine_depth = ENGINE_DEFAULT_DEPTH
    /\ ply = 0
    /\ call = Idle
    /\ ret = Nil

CallIsInCheck ==
    /\ call = Idle
    /\ \E c \in {"white", "black"} :
          /\ call' = [op |-> "is_in_check", move |-> Nil, color |-> c]
          /\ ret' = is_in_check(board, c)
    /\ UNCHANGED <<position, engine_depth, ply>>

\* the call is_legal_move and has_any_legal_move make, made on any piece
CallPseudoLegalMoves ==
    /\ call = Idle
    /\ \E s \in {q \in Squares : board[q[2]][q[1]] # None} :
          /\ call' = [op |-> "pseudo_legal_moves_for_piece", move |-> Nil,
                      file |-> s[1], rank |-> s[2]]
          /\ ret' = pseudo_legal_moves_for_piece(board, s[1], s[2],
                                                 board[s[2]][s[1]], en_passant)
    /\ UNCHANGED <<position, engine_depth, ply>>

NextProbe ==
    \/ CallIsLegalMove
    \/ CallIsInCheck
    \/ CallPseudoLegalMoves
    \/ CallLegalMoves
    \/ Return

SpecProbe == InitProbe /\ [][NextProbe]_vars

\* a matrix from its eight rows of codes, rank 0 first
board_from_rows(rows) == [r \in 0..7 |-> [f \in 0..7 |-> rows[r + 1][f + 1]]]

EmptyRow == <<None, None, None, None, None, None, None, None>>

\* tests/test_board.py test_board_round_trip_matrix: the standard initial
\* position
InitialPosition ==
    board_from_rows(<< <<"r", "n", "b", "q", "k", "b", "n", "r">>,
                       <<"p", "p", "p", "p", "p", "p", "p", "p">>,
                       EmptyRow, EmptyRow, EmptyRow, EmptyRow,
                       <<"P", "P", "P", "P", "P", "P", "P", "P">>,
                       <<"R", "N", "B", "Q", "K", "B", "N", "R">> >>)

\* the matrices a Board is built from
BoardInputs ==
    { InitialPosition,
      \* tests/test_board.py test_board_clone_is_independent
      board_from_positions({}),
      \* tests/test_evaluate.py test_evaluate_board_is_deterministic
      board_from_positions({<<4, 0, "k">>, <<4, 6, "P">>, <<4, 7, "K">>}),
      \* tests/test_evaluate.py test_evaluate_board_reflects_positional_table
      board_from_positions({<<0, 6, "P">>}),
      board_from_positions({<<0, 5, "P">>}),
      \* tests/test_evaluate.py test_positional_bonus_unknown_piece_returns_zero
      \* and test_positional_bonus_mirrors_for_black
      board_from_positions({<<0, 0, "x">>, <<0, 1, "p">>, <<7, 7, "X">>}),
      \* a piece of every kind of each side, the sides placed differently
      board_from_rows(<< <<"r", None, None, None, "k", None, None, None>>,
                         <<None, "p", None, None, None, "q", None, None>>,
                         <<None, None, "n", None, None, None, None, "B">>,
                         <<None, None, None, "b", "P", None, None, None>>,
                         <<None, "p", None, None, None, None, "N", None>>,
                         <<None, None, "Q", None, None, None, None, None>>,
                         <<"P", None, None, None, None, "R", None, None>>,
                         <<None, None, None, None, None, None, "K", None>> >>),
      \* a queen of one side on every square, a king of one side on every
      \* square
      [r \in 0..7 |-> [f \in 0..7 |-> "Q"]],
      [r \in 0..7 |-> [f \in 0..7 |-> "q"]],
      [r \in 0..7 |-> [f \in 0..7 |-> "K"]] }

InitBoard ==
    /\ board \in BoardInputs
    /\ turn = "white"
    /\ castling = <<"-">>
    /\ en_passant = Nil
    /\ halfmove = 0
    /\ fullmove = 1
    /\ engine_depth = ENGINE_DEFAULT_DEPTH
    /\ ply = 0
    /\ call = Idle
    /\ ret = Nil

\* what every endpoint does with the board of its payload and what the
\* response does with the Board: Board.from_matrix, then to_matrix
CallRoundTrip ==
    /\ call = Idle
    /\ call' = [op |-> "round_trip", move |-> Nil]
    /\ ret' = to_matrix(from_matrix(board))
    /\ UNCHANGED <<position, engine_depth, ply>>

\* the set_piece calls made on one of a board and its clone
WriteSquares == {<<0, 0>>, <<4, 0>>, <<3, 3>>, <<4, 7>>}
WritePieces == {None, "K", "q"}
Writes == {<<s[1], s[2], p>> : s \in WriteSquares, p \in WritePieces}
WriteSequences == {<<w>> : w \in Writes} \cup (Writes \X Writes)

\* the grid after a sequence of set_piece calls
RECURSIVE set_pieces(_, _)
set_pieces(b, writes) ==
    IF writes = <<>> THEN b
    ELSE set_pieces(set_piece(b, writes[1][1], writes[1][2], writes[1][3]),
                    Tail(writes))

\* tests/test_board.py test_board_clone_is_independent: clone(), then
\* set_piece calls on the clone or on the original, then both are read
CallCloneThenSetPiece ==
    /\ call = Idle
    /\ \E side \in {"clone", "original"}, writes \in WriteSequences :
          LET copy == clone(board)
              written == set_pieces(board, writes)
          IN /\ call' = [op |-> "clone_then_set_piece", move |-> Nil,
                         side |-> side, writes |-> writes]
             /\ ret' = IF side = "clone"
                       THEN [original |-> source_after(board, copy, written),
                             clone |-> written]
                       ELSE [original |-> written,
                             clone |-> source_after(copy.grid, copy, written)]
    /\ UNCHANGED <<position, engine_depth, ply>>

CallEvaluateBoard ==
    /\ call = Idle
    /\ call' = [op |-> "evaluate_board", move |-> Nil]
    /\ ret' = evaluate_board(board)
    /\ UNCHANGED <<position, engine_depth, ply>>

NextBoard ==
    \/ CallRoundTrip
    \/ CallCloneThenSetPiece
    \/ CallEvaluateBoard
    \/ Return

SpecBoard == InitBoard /\ [][NextBoard]_vars

\* positions a move is validated on: moves that mate, stalemate or check and
\* moves that do none of these
ValidatePositions ==
    { \* tests/test_helpers.py: Qb4-b7 mates, Qb4-b6 stalemates
      Pos({<<0, 0, "k">>, <<2, 2, "K">>, <<1, 3, "Q">>},
          "white", <<"-">>, Nil),
      \* Black mates and stalemates in the same way
      Pos({<<0, 7, "K">>, <<2, 5, "k">>, <<1, 4, "q">>},
          "black", <<"-">>, Nil),
      \* c7-c8 promotes and mates
      Pos({<<0, 0, "k">>, <<1, 2, "K">>, <<2, 1, "P">>},
          "white", <<"-">>, Nil),
      \* castling gives check
      Pos({<<4, 7, "K">>, <<7, 7, "R">>, <<5, 0, "k">>},
          "white", <<"K">>, Nil),
      \* Black has a blocked pawn and no king: no move, no check
      Pos({<<4, 7, "K">>, <<0, 3, "P">>, <<0, 2, "p">>},
          "white", <<"-">>, Nil),
      \* an en-passant capture is on offer
      Pos({<<4, 3, "P">>, <<3, 3, "p">>, <<4, 7, "K">>, <<0, 0, "k">>},
          "white", <<"-">>, <<3, 2>>) }

InitValidate ==
    /\ \E p \in ValidatePositions :
          /\ board = board_from_positions(p.pieces)
          /\ turn = p.turn
          /\ castling = p.castling
          /\ en_passant = p.en_passant
    /\ halfmove = 0
    /\ fullmove = 1
    /\ engine_depth = ENGINE_DEFAULT_DEPTH
    /\ ply = 0
    /\ call = Idle
    /\ ret = Nil

\* the moves a payload can carry: its coordinates lie in 0..7
PayloadMoves ==
    {m \in MoveInputs : in_bounds(from_file(m), from_rank(m))
                        /\ in_bounds(to_file(m), to_rank(m))}

CallValidateMove ==
    /\ call = Idle
    /\ \E m \in PayloadMoves :
          /\ call' = [op |-> "validate_move", move |-> m]
          /\ ret' = validate_move(board, m, turn, castling, en_passant,
                                  halfmove, fullmove)
    /\ UNCHANGED <<position, engine_depth, ply>>

NextValidate ==
    \/ CallValidateMove
    \/ Return

SpecValidate == InitValidate /\ [][NextValidate]_vars

\* a game from the standard initial position: each apply_move receives the
\* rights, the en-passant target and the clocks the call before returned.
\* The moves asked for bring about a castle, a rook that leaves its corner and
\* returns, a rook taken on its corner, a king that steps off its home square,
\* checks, and an en-passant capture by each side.
OpeningMoves ==
    { \* White: e2-e4, e4-e5, e5xd6, Ng1-f3, Bf1-c4, O-O, Ke1-e2, Qd1-h5,
      \* Qh5xe8, Rh1-g1, Rg1-h1, b2-b3, Bc1-b2, Bb2xh8
      Move(1, 6, 1, 5), Move(2, 7, 1, 6), Move(1, 6, 7, 0),
      Move(4, 6, 4, 4), Move(4, 4, 4, 3), Move(4, 3, 3, 2), Move(6, 7, 5, 5),
      Move(5, 7, 2, 4), Move(4, 7, 6, 7), Move(4, 7, 4, 6), Move(3, 7, 7, 3),
      Move(7, 3, 4, 0), Move(7, 7, 6, 7), Move(6, 7, 7, 7),
      \* Black: a7-a6, d7-d5, d5-d4, d4xe3, f7-f6, g7-g6, Ke8-f7, Bc8-g4
      Move(0, 1, 0, 2), Move(3, 1, 3, 3), Move(3, 3, 3, 4), Move(3, 4, 4, 5),
      Move(5, 1, 5, 2), Move(6, 1, 6, 2), Move(4, 0, 5, 1), Move(2, 0, 6, 4) }

\* the plies played from the initial position
MaxOpeningPly == 8

InitOpening ==
    /\ board = InitialPosition
    /\ turn = "white"
    /\ castling = <<"K", "Q", "k", "q">>
    /\ en_passant = Nil
    /\ halfmove = 0
    /\ fullmove = 1
    /\ engine_depth = ENGINE_DEFAULT_DEPTH
    /\ ply = 0
    /\ call = Idle
    /\ ret = Nil

CallApplyOpeningMove ==
    /\ call = Idle
    /\ \E m \in OpeningMoves :
          /\ call' = [op |-> "apply_move", move |-> m]
          /\ ret' = apply_move(board, m, turn, castling, en_passant,
                               halfmove, fullmove)
    /\ UNCHANGED <<position, engine_depth, ply>>

\* the other side continues with the state a successful apply_move returned
AdvanceOpening ==
    /\ call.op = "apply_move"
    /\ ret.legal
    /\ ply < MaxOpeningPly
    /\ continue_with(ret.result)
    /\ ply' = ply + 1
    /\ call' = Idle
    /\ ret' = Nil
    /\ UNCHANGED engine_depth

NextOpening ==
    \/ CallApplyOpeningMove
    \/ AdvanceOpening
    \/ Return

SpecOpening == InitOpening /\ [][NextOpening]_vars

\* the search one call at a time: call.stack holds the activations of
\* search_best_move and minimax that have not returned, the innermost last.
\* The depths asked for include zero and a negative depth.
DescentDepths == -1..ENGINE_DEFAULT_DEPTH

InitDescent ==
    /\ \E r \in SearchRequests :
          /\ board = board_from_positions(r.pieces)
          /\ turn = r.turn
          /\ castling = r.castling
          /\ en_passant = r.en_passant
    /\ engine_depth \in DescentDepths
    /\ halfmove = 0
    /\ fullmove = 1
    /\ ply = 0
    /\ call = Idle
    /\ ret = Nil

EnterSearchBestMove ==
    /\ call = Idle
    /\ call' = [op |-> "search_running", move |-> Nil,
                stack |-> <<Frame("search_best_move", board, turn, castling,
                                  en_passant, halfmove, fullmove, engine_depth,
                                  -MATE_SCORE, MATE_SCORE)>>]
    /\ UNCHANGED <<position, engine_depth, ply, ret>>

\* the innermost frame starts the next pass of its loop
EnterMove ==
    /\ call.op = "search_running"
    /\ LET f == call.stack[Len(call.stack)]
       IN /\ ~is_leaf(f)
          /\ ~loop_done(f)
          /\ call' = [call EXCEPT !.stack =
                         entered(call.stack, f,
                                 apply_move_to_clone(f.b, f.moves[f.i + 1], f.c,
                                                     f.cr, f.ep, f.hm, f.fm))]
    /\ UNCHANGED <<position, engine_depth, ply, ret>>

\* the innermost frame, one of minimax, returns to the frame that called it
ReturnFromMinimax ==
    /\ call.op = "search_running"
    /\ Len(call.stack) > 1
    /\ LET n == Len(call.stack)
           f == call.stack[n]
       IN /\ is_leaf(f) \/ loop_done(f)
          /\ call' = [call EXCEPT !.stack =
                         Append(SubSeq(call.stack, 1, n - 2),
                                resumed(call.stack[n - 1], minimax_result(f)))]
    /\ UNCHANGED <<position, engine_depth, ply, ret>>

\* the frame of search_best_move returns to the caller
ReturnFromSearchBestMove ==
    /\ call.op = "search_running"
    /\ Len(call.stack) = 1
    /\ loop_done(call.stack[1])
    /\ call' = [op |-> "search_returned", move |-> Nil, stack |-> <<>>]
    /\ ret' = search_result(call.stack[1])
    /\ UNCHANGED <<position, engine_depth, ply>>

\* the caller takes the result
TakeResult ==
    /\ call.op = "search_returned"
    /\ call' = Idle
    /\ ret' = Nil
    /\ UNCHANGED <<position, engine_depth, ply>>

\* a step of the running search
SearchStep == EnterMove \/ ReturnFromMinimax \/ ReturnFromSearchBestMove

NextDescent ==
    \/ EnterSearchBestMove
    \/ EnterMove
    \/ ReturnFromMinimax
    \/ ReturnFromSearchBestMove
    \/ TakeResult

SpecDescent == InitDescent /\ [][NextDescent]_vars

\* a search that has been called keeps running: the one thread that executes
\* it takes its next step whenever there is one.  This is WF_vars(SearchStep)
\* with the enabling condition of SearchStep written out: a running search
\* has a step to take (from a frame that is a leaf or has finished its loop
\* one of the returns, from any other frame EnterMove), and every step
\* changes call.  The caller, likewise, takes a result that is there.
SpecDescentFair ==
    /\ SpecDescent
    /\ WF_vars(TakeResult)
    /\ \/ []<>(call.op # "search_running")
       \/ []<><<SearchStep>>_vars

----------------------------------------------------------------------------
(* Properties of the rules and of the move generator, on Spec              *)

\* every move between two squares of the board
AllMoves == {Move(s[1], s[2], t[1], t[2]) : s \in Squares, t \in Squares}

accepted(m) == is_legal_move(board, m, turn, castling, en_passant).legal

\* the king of side c stands on board b, on a square the other side does not
\* attack
king_safe(b, c) ==
    LET safe(king_pos) ==
            /\ king_pos # Nil
            /\ ~is_square_attacked(b, king_pos[1], king_pos[2], opponent(c))
    IN safe(find_king(b, c))

\* C1: whenever is_legal_move reports a move legal, the board apply_move makes
\* of that move holds the mover's king, on a square that no piece of the other
\* side attacks.
C1_LegalMoveLeavesKingSafe ==
    (call.op = "is_legal_move" /\ ret.legal) =>
        LET safe_after(applied) ==
                applied.legal /\ king_safe(applied.result.board, turn)
        IN safe_after(apply_move(board, call.move, turn, castling, en_passant,
                                 halfmove, fullmove))

\* is_legal_move has accepted an en-passant capture
C1_Witness ==
    /\ call.op = "is_legal_move"
    /\ ret.legal
    /\ ret.special.is_en_passant

\* C2: as a set, legal_moves returns exactly the moves between two squares
\* that is_legal_move accepts: it holds no move that is_legal_move rejects and
\* misses none that it accepts.
C2_LegalMovesAreTheAcceptedMoves ==
    call.op = "legal_moves" =>
        /\ \A m \in Range(ret) : accepted(m)
        /\ \A m \in AllMoves : accepted(m) => m \in Range(ret)

\* legal_moves has returned both castling moves of the white king
C2_Witness ==
    /\ call.op = "legal_moves"
    /\ {Move(4, 7, 6, 7), Move(4, 7, 2, 7)} \subseteq Range(ret)
    /\ is_legal_move(board, Move(4, 7, 6, 7), turn, castling,
                     en_passant).special.is_castle

\* m1 comes no later than m2 in the lexicographic order of
\* (from_file, from_rank, to_file, to_rank)
lex_leq(m1, m2) ==
    \/ from_file(m1) < from_file(m2)
    \/ /\ from_file(m1) = from_file(m2)
       /\ \/ from_rank(m1) < from_rank(m2)
          \/ /\ from_rank(m1) = from_rank(m2)
             /\ \/ to_file(m1) < to_file(m2)
                \/ /\ to_file(m1) = to_file(m2)
                   /\ to_rank(m1) <= to_rank(m2)

\* C3: the list legal_moves returns is in ascending lexicographic order of
\* (from_file, from_rank, to_file, to_rank).
C3_LegalMovesAscending ==
    call.op = "legal_moves" =>
        \A i \in 1..(Len(ret) - 1) : lex_leq(ret[i], ret[i + 1])

\* legal_moves has returned its moves in another order than it scanned them
C3_Witness ==
    /\ call.op = "legal_moves"
    /\ Len(ret) > 1
    /\ ret # scanned_moves(board, turn, castling, en_passant)

\* C4: has_any_legal_move returns true exactly when legal_moves returns a
\* list that is not empty.
C4_HasAnyAgreesWithLegalMoves ==
    call.op = "has_any_legal_move" =>
        (ret <=> legal_moves(board, turn, castling, en_passant) # <<>>)

\* has_any_legal_move has returned false for a side with pieces to move
C4_Witness ==
    /\ call.op = "has_any_legal_move"
    /\ ~ret
    /\ has_any_candidate(board, turn, castling, en_passant)

\* the reason codes of the rules
Reasons ==
    {"out_of_bounds", "no_piece", "wrong_color", "occupied_by_ally",
     "illegal_castle", "castle_rights", "rook_missing", "castle_blocked",
     "king_in_check", "castle_through_check", "illegal_move", "king_missing",
     "ok"}

\* C10: is_legal_move and apply_move answer every move, one with coordinates
\* off the board included, with a reason code of the closed set and raise
\* nothing; the answer is legal exactly when the reason is ok; a failed
\* apply_move carries the reason is_legal_move gives and nothing else.
C10_ReasonCodesNotExceptions ==
    /\ call.op = "is_legal_move" =>
           /\ ret.reason \in Reasons
           /\ ret.legal <=> ret.reason = "ok"
    /\ call.op = "apply_move" =>
           /\ ret.result.reason \in Reasons
           /\ ret.result.legal <=> ret.result.reason = "ok"
           /\ ret.legal <=> ret.result.legal
           /\ ~ret.legal =>
                  ret.result =
                      [legal |-> FALSE,
                       reason |-> is_legal_move(board, call.move, turn,
                                                castling, en_passant).reason]

\* apply_move has refused a move from a square of the board to a file past
\* its edge
C10_Witness ==
    /\ call.op = "apply_move"
    /\ ~ret.legal
    /\ from_file(call.move) \in 0..7 /\ from_rank(call.move) \in 0..7
    /\ to_file(call.move) > 7

\* whether a coordinate pair lies on the board
on_board(file, rank) == file \in 0..7 /\ rank \in 0..7

\* the piece code on a square of the board, read off the grid
at(file, rank) == board[rank][file]

\* C11: is_legal_move answers out_of_bounds when a coordinate of the move is
\* outside 0..7; otherwise no_piece when the source square is empty; otherwise
\* wrong_color when the source piece is not of the side to move; otherwise
\* occupied_by_ally when the destination holds a piece of the side to move;
\* and none of these four reasons in any other case.
C11_BasicRejectionsInOrder ==
    call.op = "is_legal_move" =>
        LET m == call.move
            basics == {"out_of_bounds", "no_piece", "wrong_color",
                       "occupied_by_ally"}
        IN IF ~on_board(m[1], m[2]) \/ ~on_board(m[3], m[4])
           THEN ret.reason = "out_of_bounds"
           ELSE IF at(m[1], m[2]) = None THEN ret.reason = "no_piece"
           ELSE IF at(m[1], m[2]) \in WhiteCodes <=> turn # "white"
                THEN ret.reason = "wrong_color"
           ELSE IF /\ at(m[3], m[4]) # None
                   /\ (at(m[3], m[4]) \in WhiteCodes <=> turn = "white")
                THEN ret.reason = "occupied_by_ally"
           ELSE ret.reason \notin basics

\* is_legal_move has answered wrong_color for a move of the other side's
\* piece onto a piece of the side to move
C11_Witness ==
    /\ call.op = "is_legal_move"
    /\ ret.reason = "wrong_color"
    /\ on_board(call.move[3], call.move[4])
    /\ at(call.move[3], call.move[4]) # None
    /\ (at(call.move[3], call.move[4]) \in WhiteCodes <=> turn = "white")

\* C12: when is_legal_move accepts a move as a castle, the mover is the king
\* on file 4 of its home rank (7 for White, 0 for Black), the destination is
\* file 6 or 2 of that rank, the rights hold the matching flag, a rook of the
\* mover's colour stands on the matching corner, the squares strictly between
\* king and rook are empty, and the other side attacks neither the king's
\* square nor a square the king crosses or lands on.
C12_CastleOnlyWhenAllowed ==
    (call.op = "is_legal_move" /\ ret.legal /\ ret.special.is_castle) =>
        LET m == call.move
            home == IF turn = "white" THEN 7 ELSE 0
            own_king == IF turn = "white" THEN "K" ELSE "k"
            own_rook == IF turn = "white" THEN "R" ELSE "r"
            other == IF turn = "white" THEN "black" ELSE "white"
            short == m[3] = 6
            flag == IF turn = "white" THEN (IF short THEN "K" ELSE "Q")
                    ELSE (IF short THEN "k" ELSE "q")
            corner == IF short THEN 7 ELSE 0
            inner == IF short THEN {5, 6} ELSE {1, 2, 3}
            crossed == IF short THEN {4, 5, 6} ELSE {4, 3, 2}
        IN /\ at(m[1], m[2]) = own_king
           /\ m[1] = 4 /\ m[2] = home /\ m[4] = home
           /\ m[3] \in {6, 2}
           /\ \E i \in 1..Len(castling) : castling[i] = flag
           /\ at(corner, home) = own_rook
           /\ \A f \in inner : at(f, home) = None
           /\ \A f \in crossed : ~is_square_attacked(board, f, home, other)

\* is_legal_move has accepted a queenside castle of Black
C12_Witness ==
    /\ call.op = "is_legal_move"
    /\ ret.legal
    /\ ret.special.is_castle
    /\ turn = "black"
    /\ call.move = Move(4, 0, 2, 0)

----------------------------------------------------------------------------
(* Properties of the search, on SpecSearch                                 *)

\* C5: search_best_move returns no move and no_legal_moves = true exactly
\* when the side to move has no legal move; otherwise it returns a move, with
\* no_legal_moves = false, that is_legal_move accepts on the position.
C5_NoMoveExactlyWhenNoneLegal ==
    call.op = "search_best_move" =>
        LET settled(any) ==
                /\ (ret.move = Nil /\ ret.meta.no_legal_moves) <=> ~any
                /\ any => /\ ret.move # Nil
                          /\ ~ret.meta.no_legal_moves
                          /\ accepted(ret.move)
        IN settled(\E m \in AllMoves : accepted(m))

\* search_best_move has returned no move for a side that is mated
C5_Witness ==
    /\ call.op = "search_best_move"
    /\ ret.move = Nil
    /\ ret.meta.no_legal_moves
    /\ is_in_check(board, turn)

\* the score minimax returns for the position after the root move m
child_score(m) ==
    LET scored(result) ==
            minimax(result.board, opponent(turn), result.castling,
                    result.en_passant, result.halfmove, result.fullmove,
                    engine_depth - 1, -MATE_SCORE, MATE_SCORE).score
    IN scored(apply_move(board, m, turn, castling, en_passant,
                         halfmove, fullmove).result)

\* C6: search_best_move returns the first move, in the order of legal_moves,
\* whose child score is the greatest (White to move) or the least (Black to
\* move) of all root moves, and reports that move's score.
C6_FirstBestRootMove ==
    (call.op = "search_best_move" /\ ret.move # Nil) =>
        LET first_best(moves, scores) ==
                \E k \in 1..Len(moves) :
                    /\ ret.move = moves[k]
                    /\ ret.meta.score = scores[k]
                    /\ \A j \in 1..Len(moves) :
                           IF turn = "white" THEN scores[j] <= scores[k]
                           ELSE scores[j] >= scores[k]
                    /\ \A j \in 1..(k - 1) : scores[j] # scores[k]
            scored(moves) ==
                first_best(moves,
                           <<>> \o [i \in 1..Len(moves) |->
                                       child_score(moves[i])])
        IN scored(legal_moves(board, turn, castling, en_passant))

\* search_best_move has returned a move that a later root move ties with
C6_Witness ==
    /\ call.op = "search_best_move"
    /\ ret.move # Nil
    /\ LET tied(moves) ==
               \E k, j \in 1..Len(moves) :
                   /\ k < j
                   /\ moves[k] = ret.move
                   /\ child_score(moves[j]) = ret.meta.score
       IN tied(legal_moves(board, turn, castling, en_passant))

\* the exhaustive depth-limited minimax: the leaf rule of minimax (terminal
\* score without legal moves, else the static evaluation), every move of
\* legal_moves explored, no window.  It gives the score of the position, the
\* scores of its moves in the order of legal_moves and the leaves visited.
RECURSIVE plain_minimax(_, _, _, _, _, _, _)
plain_minimax(b, c, cr, ep, hm, fm, depth) ==
    LET child(result) ==
            plain_minimax(result.board, opponent(c), result.castling,
                          result.en_passant, result.halfmove, result.fullmove,
                          depth - 1)
        best(scores) ==
            IF c = "white" THEN CHOOSE x \in scores : \A y \in scores : y <= x
            ELSE CHOOSE x \in scores : \A y \in scores : x <= y
        gathered(children) ==
            [score |-> best({children[i].score : i \in 1..Len(children)}),
             scores |-> <<>> \o [i \in 1..Len(children) |-> children[i].score],
             nodes |-> Sum([i \in 1..Len(children) |-> children[i].nodes],
                           1, Len(children))]
        node(moves) ==
            IF depth <= 0 \/ moves = <<>>
            THEN [score |-> IF moves = <<>> THEN terminal_score(b, c)
                            ELSE evaluate_board(b),
                  scores |-> <<>>,
                  nodes |-> 1]
            ELSE gathered(<<>> \o [i \in 1..Len(moves) |->
                              child(apply_move(b, moves[i], c, cr, ep,
                                               hm, fm).result)])
    IN node(legal_moves(b, c, cr, ep))

\* the move and score of the exhaustive search: the first move, in the order
\* of legal_moves, whose score is the score of the position
plain_search(b, c, cr, ep, hm, fm, depth) ==
    LET chosen(moves, root) ==
            [move |-> IF moves = <<>> THEN Nil
                      ELSE moves[CHOOSE k \in 1..Len(moves) :
                                    /\ root.scores[k] = root.score
                                    /\ \A j \in 1..(k - 1) :
                                           root.scores[j] # root.score],
             score |-> root.score,
             nodes |-> root.nodes]
    IN chosen(legal_moves(b, c, cr, ep),
              plain_minimax(b, c, cr, ep, hm, fm, depth))

\* C7: for every position and every depth from 1 to 4, search_best_move, which
\* prunes, returns the move and the score of the exhaustive depth-limited
\* minimax, which does not.
C7_PruningKeepsMoveAndScore ==
    call.op = "search_best_move" =>
        LET same(plain) ==
                /\ ret.move = plain.move
                /\ ret.meta.score = plain.score
        IN same(plain_search(board, turn, castling, en_passant, halfmove,
                             fullmove, engine_depth))

\* a search of the greatest depth has visited fewer leaves than the
\* exhaustive one: it has pruned
C7_Witness ==
    /\ call.op = "search_best_move"
    /\ engine_depth = ENGINE_MAX_DEPTH
    /\ ret.meta.nodes < plain_search(board, turn, castling, en_passant,
                                     halfmove, fullmove, engine_depth).nodes

\* C9: when search_best_move or minimax returns, at any depth, the board it
\* was given is square for square the board before the call.
C9_SearchLeavesBoardAlone ==
    call.op \in {"search_best_move", "minimax"} => ret.board = board

\* minimax has returned from exploring moves below the position
C9_Witness ==
    /\ call.op = "minimax"
    /\ engine_depth > ENGINE_MIN_DEPTH
    /\ ret.nodes > 1

----------------------------------------------------------------------------
(* Properties of move application, on SpecGame                             *)

\* apply_move has succeeded on the position
applied == call.op = "apply_move" /\ ret.legal

\* the piece code on a square of the board apply_move returned
after(file, rank) == ret.result.board[rank][file]

\* the piece that moves, and what stands on its destination beforehand
mover == at(call.move[1], call.move[2])
taken == at(call.move[3], call.move[4])

\* the flag is_legal_move gives the move
flagged_en_passant ==
    is_legal_move(board, call.move, turn, castling, en_passant)
        .special.is_en_passant

\* the mover is a king that steps two files along its rank
castling_move ==
    /\ mover \in {"K", "k"}
    /\ call.move[2] = call.move[4]
    /\ call.move[3] - call.move[1] \in {2, -2}

\* the flags of a colour that a rights string holds
flags_of(cr, c) ==
    {cr[i] : i \in 1..Len(cr)}
    \cap (IF c = "white" THEN {"K", "Q"} ELSE {"k", "q"})

\* C13: after apply_move succeeds on a castling move, the king stands on
\* file 6 and the rook on file 5 (kingside), or the king on file 2 and the
\* rook on file 3 (queenside), of the home rank; the origin squares of king
\* and rook are empty; the castle detail names that rook origin and
\* destination; the mover's two rights are gone and the other side's rights
\* are as they were.
C13_CastlePlacesKingAndRook ==
    (applied /\ castling_move) =>
        LET home == call.move[2]
            short == call.move[3] = 6
            king_to == IF short THEN 6 ELSE 2
            rook_from == IF short THEN 7 ELSE 0
            rook_to == IF short THEN 5 ELSE 3
            own_rook == IF turn = "white" THEN "R" ELSE "r"
        IN /\ home = (IF turn = "white" THEN 7 ELSE 0)
           /\ call.move[3] = king_to
           /\ after(king_to, home) = mover
           /\ after(rook_to, home) = own_rook
           /\ after(4, home) = None
           /\ after(rook_from, home) = None
           /\ ret.result.castle =
                  [rook_from |-> [file |-> rook_from, rank |-> home],
                   rook_to |-> [file |-> rook_to, rank |-> home]]
           /\ flags_of(ret.result.castling, turn) = {}
           /\ flags_of(ret.result.castling, opponent(turn))
                  = flags_of(castling, opponent(turn))

\* Black has castled kingside while White still holds a right
C13_Witness ==
    /\ applied
    /\ castling_move
    /\ turn = "black"
    /\ call.move[3] = 6
    /\ flags_of(castling, "white") # {}

\* C14: when apply_move succeeds on a move flagged en passant, the square on
\* the destination file and the mover's origin rank is empty afterwards, the
\* pawn that moved stands on the en-passant target, and the capture square
\* reported is (to_file, from_rank), which is not the destination; for an
\* ordinary capture the capture square reported is the destination; for a
\* move that captures nothing it is absent.
C14_CaptureSquare ==
    applied =>
        LET m == call.move
        IN IF flagged_en_passant
           THEN /\ after(m[3], m[2]) = None
                /\ <<m[3], m[4]>> = en_passant
                /\ after(m[3], m[4]) = mover
                /\ mover \in {"P", "p"}
                /\ ret.result.capture = <<m[3], m[2]>>
                /\ ret.result.capture # <<m[3], m[4]>>
           ELSE IF taken # None
                THEN ret.result.capture = <<m[3], m[4]>>
                ELSE ret.result.capture = Nil

\* a pawn has captured en passant the pawn that had just passed it
C14_Witness ==
    /\ applied
    /\ flagged_en_passant
    /\ ply > 0
    /\ at(call.move[3], call.move[2]) \in {"P", "p"}

\* the number of pieces on a board
piece_count(b) == Cardinality({sq \in Squares : b[sq[2]][sq[1]] # None})

\* C15 as the claim states it: a successful apply_move of a move that is no
\* capture, no castle and not en passant keeps the number of pieces, and one
\* of a capture or of an en-passant move lowers it by exactly one, on every
\* input state.
C15_AsStated ==
    applied =>
        /\ (taken = None /\ ~castling_move /\ ~flagged_en_passant) =>
               piece_count(ret.result.board) = piece_count(board)
        /\ (taken # None \/ flagged_en_passant) =>
               piece_count(ret.result.board) = piece_count(board) - 1

\* C15: a successful apply_move of a move that is no capture, no castle and
\* not en passant keeps the number of pieces; one of a capture lowers it by
\* exactly one; one of an en-passant move lowers it by exactly one when a
\* piece stands beside the mover on the destination file, and keeps it when
\* that square is empty.
C15_PieceCount ==
    applied =>
        /\ (taken = None /\ ~castling_move /\ ~flagged_en_passant) =>
               piece_count(ret.result.board) = piece_count(board)
        /\ taken # None =>
               piece_count(ret.result.board) = piece_count(board) - 1
        /\ flagged_en_passant =>
               piece_count(ret.result.board) =
                   piece_count(board)
                   - (IF at(call.move[3], call.move[2]) # None THEN 1 ELSE 0)

\* an en-passant move has left the board one piece short
C15_Witness ==
    /\ applied
    /\ flagged_en_passant
    /\ piece_count(ret.result.board) = piece_count(board) - 1

\* C16: the en-passant target a successful apply_move returns is set exactly
\* when the move took a pawn two ranks forward, and is then the square the
\* pawn passed over, on its file one rank in front of its origin; after any
\* other move it is none, whatever the target before the move was.
C16_EnPassantTarget ==
    applied =>
        LET m == call.move
            ahead == IF turn = "white" THEN m[2] - 1 ELSE m[2] + 1
        IN IF mover \in {"P", "p"} /\ m[4] - m[2] \in {2, -2}
           THEN /\ ret.result.en_passant = <<m[1], ahead>>
                /\ m[3] = m[1]
                /\ 2 * ahead = m[2] + m[4]
           ELSE ret.result.en_passant = Nil

\* a move that is no double push has answered a double push: the target the
\* double push made is gone
C16_Witness ==
    /\ applied
    /\ ply > 0
    /\ en_passant # Nil
    /\ ret.result.en_passant = Nil

\* C17: the halfmove clock a successful apply_move returns is 0 when the
\* mover is a pawn or the move captures, directly or en passant, and is the
\* clock it was given plus one otherwise, castling included.
C17_HalfmoveClock ==
    applied =>
        IF mover \in {"P", "p"} \/ taken # None \/ flagged_en_passant
        THEN ret.result.halfmove = 0
        ELSE ret.result.halfmove = halfmove + 1

\* a castle has advanced a clock that was already running
C17_Witness ==
    /\ applied
    /\ castling_move
    /\ halfmove > 0
    /\ ret.result.halfmove = halfmove + 1

\* C18: the fullmove number a successful apply_move returns is the number it
\* was given plus one when Black moved, and that number when White moved;
\* along a game that White opened at fullmove 1 the number is
\* 1 + floor(n / 2) after n plies, and it never falls.
C18_FullmoveNumber ==
    LET white_opened == (ply % 2 = 0) <=> (turn = "white")
    IN /\ white_opened => fullmove = 1 + ply \div 2
       /\ applied =>
              /\ ret.result.fullmove
                     = (IF turn = "black" THEN fullmove + 1 ELSE fullmove)
              /\ ret.result.fullmove >= fullmove
              /\ white_opened => ret.result.fullmove = 1 + (ply + 1) \div 2

\* Black has answered White's opening move: the second ply ends fullmove 1
C18_Witness ==
    /\ applied
    /\ ply = 1
    /\ turn = "black"
    /\ fullmove = 1
    /\ ret.result.fullmove = 2

\* C19: when a successful apply_move brings a pawn to the last rank of its
\* colour (0 for White, 7 for Black), the destination holds a queen of that
\* colour afterwards and the promotion marker is "Q"; after any other move
\* the marker is absent and the destination holds the piece that moved.
C19_PromotionToQueen ==
    applied =>
        LET m == call.move
        IN IF \/ mover = "P" /\ m[4] = 0
              \/ mover = "p" /\ m[4] = 7
           THEN /\ after(m[3], m[4]) = (IF mover = "P" THEN "Q" ELSE "q")
                /\ ret.result.promotion = "Q"
           ELSE /\ after(m[3], m[4]) = mover
                /\ ret.result.promotion = None

\* a black pawn has promoted by a capture on the last rank
C19_Witness ==
    /\ applied
    /\ mover = "p"
    /\ call.move[4] = 7
    /\ taken # None
    /\ ret.result.promotion = "Q"

----------------------------------------------------------------------------
(* Properties of the rights bookkeeping, on SpecRights                     *)

\* the flag of the home corner of a rook of the given code, if the square is
\* one
home_corner_flag(rook, file, rank) ==
    IF rook = "R" /\ rank = 7 /\ file = 0 THEN {"Q"}
    ELSE IF rook = "R" /\ rank = 7 /\ file = 7 THEN {"K"}
    ELSE IF rook = "r" /\ rank = 0 /\ file = 0 THEN {"q"}
    ELSE IF rook = "r" /\ rank = 0 /\ file = 7 THEN {"k"}
    ELSE {}

\* C20: update_castling_rights returns the rights it was given less both
\* flags of a colour whose king moves, less the flag of the home corner a
\* rook moves from, less the flag of the home corner a rook is captured on,
\* and less nothing else, written in the order "KQkq", or "-" when no flag
\* is left.
C20_RightsUpdate ==
    call.op = "update_castling_rights" =>
        LET m == call.move
            given == {castling[i] : i \in 1..Len(castling)} \ {"-"}
            lost == (IF call.moving_piece = "K" THEN {"K", "Q"} ELSE {})
                    \cup (IF call.moving_piece = "k" THEN {"k", "q"} ELSE {})
                    \cup home_corner_flag(call.moving_piece, m[1], m[2])
                    \cup home_corner_flag(call.captured_piece, m[3], m[4])
            kept == given \ lost
            written ==
                (IF "K" \in kept THEN <<"K">> ELSE <<>>)
                \o (IF "Q" \in kept THEN <<"Q">> ELSE <<>>)
                \o (IF "k" \in kept THEN <<"k">> ELSE <<>>)
                \o (IF "q" \in kept THEN <<"q">> ELSE <<>>)
        IN ret = (IF kept = {} THEN <<"-">> ELSE written)

\* a rook that leaves a4 has taken the rook on a8: of "qK" this leaves "K",
\* the capture costing Black a flag and the move costing White none
C20_Witness ==
    /\ call.op = "update_castling_rights"
    /\ castling = <<"q", "K">>
    /\ call.moving_piece = "R"
    /\ call.move = Move(0, 4, 0, 0)
    /\ call.captured_piece = "r"
    /\ ret = <<"K">>

----------------------------------------------------------------------------
(* Properties of the rules asked about a position, on SpecProbe            *)

Sign(n) == IF n > 0 THEN 1 ELSE IF n < 0 THEN -1 ELSE 0

\* the squares strictly between two squares of a rank, file or diagonal are
\* all empty
clear_between(file, rank, to_f, to_r) ==
    LET n == Max(Abs(to_f - file), Abs(to_r - rank))
    IN \A k \in 1..(n - 1) :
          at(file + k * Sign(to_f - file), rank + k * Sign(to_r - rank)) = None

\* the piece on (file, rank) attacks (to_f, to_r) by the rules of chess
attacks(file, rank, to_f, to_r) ==
    LET piece == at(file, rank)
        df == to_f - file
        dr == to_r - rank
        diagonal == Abs(df) = Abs(dr) /\ df # 0
        straight == (df = 0) # (dr = 0)
    IN /\ piece # None
       /\ CASE kind(piece) = "P" ->
                 Abs(df) = 1 /\ dr = (IF color(piece) = "white" THEN -1 ELSE 1)
            [] kind(piece) = "N" -> {Abs(df), Abs(dr)} = {1, 2}
            [] kind(piece) = "K" -> Max(Abs(df), Abs(dr)) = 1
            [] kind(piece) = "B" ->
                 diagonal /\ clear_between(file, rank, to_f, to_r)
            [] kind(piece) = "R" ->
                 straight /\ clear_between(file, rank, to_f, to_r)
            [] kind(piece) = "Q" ->
                 (diagonal \/ straight) /\ clear_between(file, rank, to_f, to_r)
            [] OTHER -> FALSE

\* the squares that hold a king of colour c
kings(c) == {s \in Squares : at(s[1], s[2]) = (IF c = "white" THEN "K" ELSE "k")}

\* C21: is_in_check(board, color) is true exactly when a king of that colour
\* stands on the board and some piece of the other colour attacks its square;
\* with no king of that colour on the board it is false.
C21_CheckIsAnAttackedKing ==
    call.op = "is_in_check" =>
        /\ ret \in BOOLEAN
        /\ ret <=> \E k \in kings(call.color) : \E s \in Squares :
                      /\ at(s[1], s[2]) # None
                      /\ color(at(s[1], s[2])) = opponent(call.color)
                      /\ attacks(s[1], s[2], k[1], k[2])
        /\ kings(call.color) = {} => ret = FALSE

\* the white king on e1 is in check from the knight on f3
C21_Witness ==
    /\ call.op = "is_in_check"
    /\ call.color = "white"
    /\ at(4, 7) = "K" /\ at(5, 5) = "n"
    /\ ret = TRUE

\* White has no king to be in check
C21_NoKing ==
    /\ call.op = "is_in_check"
    /\ call.color = "white"
    /\ kings("white") = {}
    /\ ret = FALSE

\* some piece of colour c attacks (file, rank)
attacked_by(c, file, rank) ==
    \E s \in Squares :
        /\ at(s[1], s[2]) # None
        /\ color(at(s[1], s[2])) = c
        /\ attacks(s[1], s[2], file, rank)

\* is_legal_move was asked about a two-file step of a king of the side to
\* move along a rank, onto a square that holds no piece of its own side
castle_step ==
    /\ call.op = "is_legal_move"
    /\ on_board(call.move[1], call.move[2])
    /\ on_board(call.move[3], call.move[4])
    /\ at(call.move[1], call.move[2]) = (IF turn = "white" THEN "K" ELSE "k")
    /\ LET target == at(call.move[3], call.move[4])
       IN target = None \/ color(target) # turn
    /\ call.move[2] = call.move[4]
    /\ Abs(call.move[3] - call.move[1]) = 2

\* the castling reasons in the order the checks are made
CastleReasons ==
    <<"illegal_castle", "castle_rights", "rook_missing", "castle_blocked",
      "king_in_check", "castle_through_check">>

\* C27: for a king's two-file step along a rank that passed the basic
\* rejections, is_legal_move reports the first failing castling check in this
\* order: illegal_castle off the home rank; castle_rights when the flag of the
\* destination side (file 6 or 2) is missing; illegal_castle when the
\* destination file is neither 6 nor 2; rook_missing when the corner holds no
\* rook of the mover; castle_blocked when a square between king and rook is
\* occupied; king_in_check when the king's square is attacked;
\* castle_through_check when a crossed or the destination square is attacked.
C27_FirstFailingCastleCheck ==
    castle_step =>
        LET from_f == call.move[1]
            to_f == call.move[3]
            home == IF turn = "white" THEN 7 ELSE 0
            flag == IF to_f = 6
                    THEN (IF turn = "white" THEN "K" ELSE "k")
                    ELSE (IF turn = "white" THEN "Q" ELSE "q")
            corner == IF to_f = 6 THEN 7 ELSE 0
            inner == {f \in 0..7 : Min(from_f, corner) < f /\ f < Max(from_f, corner)}
            crossed == {f \in 0..7 : Min(from_f, to_f) <= f /\ f <= Max(from_f, to_f)}
                       \ {from_f}
            failing ==
                << call.move[2] # home,
                   to_f \in {6, 2} /\ flag \notin Range(castling),
                   to_f \notin {6, 2},
                   at(corner, home) # (IF turn = "white" THEN "R" ELSE "r"),
                   \E f \in inner : at(f, home) # None,
                   attacked_by(opponent(turn), from_f, home),
                   \E f \in crossed : attacked_by(opponent(turn), f, home) >>
            reasons ==
                <<"illegal_castle", "castle_rights", "illegal_castle",
                  "rook_missing", "castle_blocked", "king_in_check",
                  "castle_through_check">>
            first == {i \in 1..7 : failing[i] /\ \A j \in 1..(i - 1) : ~failing[j]}
        IN /\ \A i \in first : ~ret.legal /\ ret.reason = reasons[i]
           /\ first = {} => ret.special.is_castle /\ ret.reason \notin Range(CastleReasons)

\* no rook stands on h1 and the bishop on f1 is in the way: the missing rook
\* is what is reported
C27_Witness ==
    /\ castle_step
    /\ call.move = Move(4, 7, 6, 7)
    /\ "K" \in Range(castling)
    /\ at(7, 7) = None /\ at(5, 7) = "B"
    /\ ret.reason = "rook_missing"

\* pseudo_legal_moves_for_piece was asked about the piece on a square
pseudo_call == call.op = "pseudo_legal_moves_for_piece"
asked_piece == at(call.file, call.rank)

\* the moves of the answer that leave the file of the piece
diagonal_moves == {m \in Range(ret) : to_file(m) # from_file(m)}

\* the answer holds no two-file step of a king
no_castling_move ==
    kind(asked_piece) = "K" =>
        \A m \in Range(ret) : Abs(to_file(m) - from_file(m)) <= 1

\* C28 as stated: a pawn's diagonal move is produced only onto an enemy piece
\* or onto an empty en-passant target, never onto an en-passant target that
\* holds a friendly piece; and no castling move is produced.
C28_AsStated ==
    pseudo_call =>
        /\ kind(asked_piece) = "P" =>
              \A m \in diagonal_moves :
                  LET target == at(to_file(m), to_rank(m))
                  IN \/ target # None /\ color(target) # color(asked_piece)
                     \/ <<to_file(m), to_rank(m)>> = en_passant /\ target = None
        /\ no_castling_move

\* C28: a pawn's diagonal move is produced exactly for the squares one rank
\* forward and one file aside that hold an enemy piece or are the en-passant
\* target, whatever stands on the target, a friendly piece included; and no
\* castling move is produced.
C28_PawnDiagonals ==
    pseudo_call =>
        /\ kind(asked_piece) = "P" =>
              LET forward == call.rank
                             + (IF color(asked_piece) = "white" THEN -1 ELSE 1)
                  wanted ==
                      {Move(call.file, call.rank, f, forward) :
                          f \in {g \in {call.file - 1, call.file + 1} :
                                    /\ on_board(g, forward)
                                    /\ \/ /\ at(g, forward) # None
                                          /\ color(at(g, forward))
                                                # color(asked_piece)
                                       \/ <<g, forward>> = en_passant}}
              IN diagonal_moves = wanted
        /\ no_castling_move

\* the white pawn on e5 is given the step onto the en-passant target d6,
\* where a white knight stands
C28_Witness ==
    /\ pseudo_call
    /\ call.file = 4 /\ call.rank = 3
    /\ asked_piece = "P"
    /\ en_passant = <<3, 2>>
    /\ at(3, 2) = "N"
    /\ Move(4, 3, 3, 2) \in Range(ret)

----------------------------------------------------------------------------
(* Properties of the board and of its evaluation, on SpecBoard             *)

\* the matrix has eight ranks of eight cells, each a piece code or None
well_formed(matrix) ==
    /\ DOMAIN matrix = 0..7
    /\ \A r \in 0..7 :
          /\ DOMAIN matrix[r] = 0..7
          /\ \A f \in 0..7 : matrix[r][f] \in STRING

\* C24: Board.from_matrix followed by to_matrix gives back a matrix identical
\* to the well-formed matrix it was given.
C24_MatrixRoundTrip ==
    call.op = "round_trip" /\ well_formed(board) => ret = board

\* the standard initial position went through from_matrix and to_matrix
C24_Witness ==
    /\ call.op = "round_trip"
    /\ board = InitialPosition
    /\ ret[0][4] = "k" /\ ret[7][4] = "K" /\ ret[3][3] = None

\* the piece the last of the writes on (file, rank) put there, or the piece
\* that stood there when no write touched the square
last_written(writes, file, rank) ==
    LET hits == {i \in 1..Len(writes) :
                    writes[i][1] = file /\ writes[i][2] = rank}
    IN IF hits = {} THEN at(file, rank)
       ELSE writes[CHOOSE i \in hits : \A j \in hits : j <= i][3]

\* C25: after clone(), set_piece calls on the clone leave every square of the
\* original as it was, and set_piece calls on the original leave every square
\* of the clone as it was; the board written to holds what was written.
C25_CloneIsIndependent ==
    call.op = "clone_then_set_piece" =>
        LET untouched == IF call.side = "clone" THEN ret.original ELSE ret.clone
            touched == IF call.side = "clone" THEN ret.clone ELSE ret.original
        IN \A s \in Squares :
              /\ untouched[s[2]][s[1]] = at(s[1], s[2])
              /\ touched[s[2]][s[1]] = last_written(call.writes, s[1], s[2])

\* two writes on the clone of the initial position changed the clone, and
\* the original still holds its king and its queen's pawn
C25_Witness ==
    /\ call.op = "clone_then_set_piece"
    /\ call.side = "clone"
    /\ board = InitialPosition
    /\ call.writes = << <<4, 0, None>>, <<3, 3, "q">> >>
    /\ ret.clone[0][4] = None /\ ret.clone[3][3] = "q"
    /\ ret.original[0][4] = "k" /\ ret.original[3][3] = None

\* the code of the same kind of piece of the other colour
swap_color(code) ==
    CASE code = "P" -> "p" [] code = "p" -> "P"
      [] code = "N" -> "n" [] code = "n" -> "N"
      [] code = "B" -> "b" [] code = "b" -> "B"
      [] code = "R" -> "r" [] code = "r" -> "R"
      [] code = "Q" -> "q" [] code = "q" -> "Q"
      [] code = "K" -> "k" [] code = "k" -> "K"
      [] code = "X" -> "x" [] code = "x" -> "X"
      [] OTHER -> code

\* the board with rank r moved to rank 7 - r and every piece changed to the
\* other colour
mirrored(b) == [r \in 0..7 |-> [f \in 0..7 |-> swap_color(b[7 - r][f])]]

\* C26: the board obtained by mirroring the ranks and swapping the colour of
\* every piece evaluates to the negation of the original's evaluation; the
\* positional bonus of a piece on (file, r) equals that of the piece of the
\* other colour and the same kind on (file, 7 - r); the standard initial
\* position evaluates to 0.
C26_EvaluationIsColourSymmetric ==
    call.op = "evaluate_board" =>
        /\ evaluate_board(mirrored(board)) = -ret
        /\ \A s \in Squares :
              at(s[1], s[2]) # None =>
                  positional_bonus(at(s[1], s[2]), s[1], s[2])
                     = positional_bonus(swap_color(at(s[1], s[2])),
                                        s[1], 7 - s[2])
        /\ board = InitialPosition => ret = 0

\* a board on which the sides stand differently has an evaluation other than
\* 0, and a black pawn on it has a bonus that depends on its rank
C26_Witness ==
    /\ call.op = "evaluate_board"
    /\ ret # 0
    /\ at(1, 1) = "p" /\ at(0, 6) = "P" /\ at(4, 0) = "k" /\ at(6, 7) = "K"
    /\ positional_bonus("p", 1, 1) # positional_bonus("p", 1, 6)

----------------------------------------------------------------------------
(* Properties of the validation response, on SpecValidate                  *)

\* the state apply_move returns for the validated move
validated_state ==
    apply_move(board, call.move, turn, castling, en_passant, halfmove,
               fullmove).result

\* the side to move after the validated move has a legal move
reply_exists ==
    \E m \in AllMoves :
        is_legal_move(validated_state.board, m, opponent(turn),
                      validated_state.castling,
                      validated_state.en_passant).legal

\* C22: after a legal move the response reports game_over exactly when the
\* side now to move has no legal move; then the outcome is checkmate, won by
\* the side that just moved, if the side to move is in check, and stalemate
\* without a winner otherwise; when the side to move has a legal move, outcome
\* and winner are absent.
C22_GameOverOutcomeWinner ==
    call.op = "validate_move" /\ ret.legal =>
        /\ ret.game_over = ~reply_exists
        /\ ret.check = is_in_check(validated_state.board, opponent(turn))
        /\ ret.game_over /\ ret.check =>
              ret.outcome = "checkmate" /\ ret.winner = turn
        /\ ret.game_over /\ ~ret.check =>
              ret.outcome = "stalemate" /\ ret.winner = None
        /\ ~ret.game_over => ret.outcome = None /\ ret.winner = None

\* Black's queen mates on b2 and Black is named the winner
C22_Witness ==
    /\ call.op = "validate_move"
    /\ turn = "black"
    /\ call.move = Move(1, 4, 1, 6)
    /\ ret.legal /\ ret.game_over /\ ret.check
    /\ ret.outcome = "checkmate" /\ ret.winner = "black"

----------------------------------------------------------------------------
(* Properties of the search tree, on SpecTree                              *)

\* the depth CallMinimax passes to minimax
minimax_depth == engine_depth - 1

\* the side to move has no legal move
no_legal_move == ~\E m \in AllMoves : accepted(m)

\* C23: a minimax node with depth <= 0 or with no legal move returns node
\* count 1 and as score: when the side to move has no legal move,
\* -MATE_SCORE if it is White and in check, +MATE_SCORE if it is Black and in
\* check, 0 if it is not in check, at depth zero as well; otherwise the
\* evaluate_board value of the board.
C23_LeafScoreAndCount ==
    call.op = "minimax" /\ (minimax_depth <= 0 \/ no_legal_move) =>
        /\ ret.nodes = 1
        /\ ret.score =
              IF no_legal_move
              THEN (IF ~is_in_check(board, turn) THEN 0
                    ELSE IF turn = "white" THEN -MATE_SCORE
                    ELSE MATE_SCORE)
              ELSE evaluate_board(board)

\* Black is mated and minimax is called on it with depth zero
C23_Witness ==
    /\ call.op = "minimax"
    /\ minimax_depth = 0
    /\ turn = "black"
    /\ no_legal_move
    /\ is_in_check(board, turn)
    /\ evaluate_board(board) # MATE_SCORE
    /\ ret.nodes = 1 /\ ret.score = MATE_SCORE

\* the moves legal_moves gives for the position searched
root_moves == legal_moves(board, turn, castling, en_passant)

\* C29: every move of legal_moves is applied successfully by apply_move on a
\* clone of the board with the same side, rights and en-passant target; so
\* the search skips no branch, and with a legal move at hand it returns one
\* of the legal moves and never falls back on a missing best score.
C29_GeneratedMovesApply ==
    call.op = "search_best_move" =>
        /\ \A m \in Range(root_moves) :
              apply_move_to_clone(board, m, turn, castling, en_passant,
                                  halfmove, fullmove).state # Nil
        /\ root_moves # <<>> =>
              /\ ret.move \in Range(root_moves)
              /\ ~ret.meta.no_legal_moves
              /\ ret.meta.score = child_score(ret.move)

\* the en-passant capture is one of the legal moves, is applied on a clone and
\* the search returns a move
C29_Witness ==
    /\ call.op = "search_best_move"
    /\ en_passant = <<3, 2>>
    /\ Move(4, 3, 3, 2) \in Range(root_moves)
    /\ apply_move_to_clone(board, Move(4, 3, 3, 2), turn, castling, en_passant,
                           halfmove, fullmove).state # Nil
    /\ ret.move # Nil

\* the nodes minimax reports for the position after the root move m
child_nodes(m) ==
    LET counted(result) ==
            minimax(result.board, opponent(turn), result.castling,
                    result.en_passant, result.halfmove, result.fullmove,
                    engine_depth - 1, -MATE_SCORE, MATE_SCORE).nodes
    IN counted(apply_move(board, m, turn, castling, en_passant,
                          halfmove, fullmove).result)

\* the leaves of the whole tree below the position, to the given depth
all_leaves(depth) ==
    plain_minimax(board, turn, castling, en_passant, halfmove, fullmove,
                  depth).nodes

\* C30: the root of search_best_move does not count itself and reports the
\* sum of what its children report; a leaf of minimax counts 1; an inner node
\* reports the sum of its visited children without itself.  So the nodes
\* reported are leaves visited: as many as the legal root moves at depth 1,
\* 1 for a root without a legal move, and never more than the leaves of the
\* tree.
C30_NodesAreLeavesVisited ==
    /\ call.op = "search_best_move" =>
          /\ root_moves = <<>> => ret.meta.nodes = 1
          /\ root_moves # <<>> =>
                /\ ret.meta.nodes
                      = Sum([i \in 1..Len(root_moves) |-> child_nodes(root_moves[i])],
                            1, Len(root_moves))
                /\ Len(root_moves) <= ret.meta.nodes
                /\ ret.meta.nodes <= all_leaves(engine_depth)
          /\ engine_depth = 1 /\ root_moves # <<>> =>
                ret.meta.nodes = Len(root_moves)
    /\ call.op = "minimax" =>
          /\ 1 <= ret.nodes
          /\ ret.nodes <= all_leaves(minimax_depth)
          /\ minimax_depth <= 0 \/ root_moves = <<>> => ret.nodes = 1
          \* every child of the node is a leaf and none gave a mate score
          \* that ends the loop
          /\ (/\ minimax_depth = 1
              /\ root_moves # <<>>
              /\ Abs(ret.score) # MATE_SCORE) => ret.nodes = Len(root_moves)

\* a search of depth 1 over several legal moves reports as many nodes as
\* there are moves
C30_Witness ==
    /\ call.op = "search_best_move"
    /\ engine_depth = 1
    /\ Len(root_moves) > 2
    /\ ret.meta.nodes = Len(root_moves)

----------------------------------------------------------------------------
(* Properties of the search over a move list that cannot be applied, on    *)
(* SpecFallback                                                             *)

\* C31: when the move list is not empty and the application of every root
\* move fails, search_best_move returns no move, the evaluate_board value of
\* the root board, which is left as it was, nodes = 0 and
\* no_legal_moves = false; the failures come back as this result, not as an
\* error.
C31_FallbackOnFailedMoves ==
    (/\ call.op = "search_over_fake_moves"
     /\ \A m \in Range(call.moves) :
           apply_move_to_clone(board, m, turn, castling, en_passant,
                               halfmove, fullmove).state = Nil) =>
        /\ ret.move = Nil
        /\ ret.meta.score = evaluate_board(board)
        /\ ret.meta.nodes = 0
        /\ ret.meta.no_legal_moves = FALSE
        /\ ret.meta.depth = engine_depth
        /\ ret.board = board

\* two moves that cannot be applied, one of them off the board, on a position
\* whose evaluation is not 0 and whose side to move has legal moves
C31_Witness ==
    /\ call.op = "search_over_fake_moves"
    /\ Len(call.moves) = 2
    /\ call.moves[1] = Move(-1, 0, 0, 0)
    /\ legal_moves(board, turn, castling, en_passant) # <<>>
    /\ evaluate_board(board) # 0
    /\ ret.move = Nil
    /\ ret.meta.score = evaluate_board(board)
    /\ ret.meta.nodes = 0

\* the most a piece on (file, rank) can add to or take from the score
greatest_contribution(file, rank) ==
    LET worth(code) ==
            (IF kind(code) \in DOMAIN PIECE_VALUES
             THEN PIECE_VALUES[kind(code)] ELSE 0)
            + positional_bonus(code, file, rank)
    IN CHOOSE x \in {Abs(worth(code)) : code \in PieceCodes} :
          \A code \in PieceCodes : Abs(worth(code)) <= x

\* the greatest absolute score of any placement of pieces on the 64 squares
greatest_evaluation ==
    Sum([i \in 0..63 |-> greatest_contribution(i % 8, i \div 8)], 0, 63)

\* C33: the absolute value of evaluate_board is less than MATE_SCORE for
\* every board: the greatest score any placement of pieces can reach lies
\* below MATE_SCORE, and no board evaluated exceeds that greatest score.
C33_MateDominatesEvaluation ==
    call.op = "evaluate_board" =>
        /\ greatest_evaluation < MATE_SCORE
        /\ Abs(ret) <= greatest_evaluation
        /\ Abs(ret) < MATE_SCORE

\* with a black queen on every square the score is more than half of
\* -MATE_SCORE and still above it
C33_Witness ==
    /\ call.op = "evaluate_board"
    /\ \A s \in Squares : at(s[1], s[2]) = "q"
    /\ ret < -(MATE_SCORE \div 2)
    /\ ret > -MATE_SCORE

----------------------------------------------------------------------------
(* Frame properties of the rules calls, on Spec                            *)

\* C34: is_legal_move leaves the board it is given as it was, whatever its
\* verdict; apply_move leaves it as it was when it reports failure; an
\* apply_move that succeeds is the one call that changes the board, into the
\* board of its result.
C34_OnlySuccessMutates ==
    /\ call.op = "is_legal_move" => ret.board = board
    /\ (call.op = "apply_move" /\ ~ret.legal) => ret.board = board
    /\ (call.op = "apply_move" /\ ret.legal) =>
          /\ ret.board = ret.result.board
          /\ ret.board # board

\* apply_move has failed on a move whose simulation left the king in check
C34_Witness ==
    /\ call.op = "apply_move"
    /\ ~ret.legal
    /\ ret.result.reason = "king_in_check"
    /\ ret.board = board

----------------------------------------------------------------------------
(* Frame and rights properties of move application, on SpecGame            *)

\* the squares on which the board apply_move returned differs from the board
\* it was given
changed_squares == {s \in Squares : after(s[1], s[2]) # at(s[1], s[2])}

\* C35: a successful apply_move changes no square other than the origin and
\* the destination of the move, the square (to_file, from_rank) when the move
\* is en passant, and the rook's corner and the rook's destination on the
\* mover's rank when the move castles.
C35_ChangedSquares ==
    applied =>
        LET m == call.move
            rook_from == IF m[3] = 6 THEN 7 ELSE 0
            rook_to == IF m[3] = 6 THEN 5 ELSE 3
        IN changed_squares \subseteq
               {<<m[1], m[2]>>, <<m[3], m[4]>>}
               \cup (IF flagged_en_passant THEN {<<m[3], m[2]>>} ELSE {})
               \cup (IF ret.result.castle # Nil
                     THEN {<<rook_from, m[2]>>, <<rook_to, m[2]>>}
                     ELSE {})

\* the white king has stepped diagonally past its own knight, which stands
\* where it stood
C35_Witness ==
    /\ applied
    /\ mover = "K"
    /\ call.move[1] # call.move[3]
    /\ call.move[2] # call.move[4]
    /\ at(call.move[3], call.move[2]) = "N"
    /\ after(call.move[3], call.move[2]) = "N"
    /\ changed_squares = {<<call.move[1], call.move[2]>>,
                          <<call.move[3], call.move[4]>>}

\* the castling flags a rights string holds
flags(cr) == {cr[i] : i \in 1..Len(cr)} \cap {"K", "Q", "k", "q"}

\* C36: the flags of the rights string a successful apply_move returns are
\* among the flags of the string it was given: a right that is gone does not
\* come back, whatever moves and wherever king and rook stand.
C36_RightsOnlyShrink ==
    applied => flags(ret.result.castling) \subseteq flags(castling)

\* the white king and its h1 rook stand on their home squares before and
\* after a move of the king's side, and the kingside right stays lost
C36_Witness ==
    /\ applied
    /\ turn = "white"
    /\ at(4, 7) = "K" /\ at(7, 7) = "R"
    /\ after(4, 7) = "K" /\ after(7, 7) = "R"
    /\ "K" \notin flags(castling)
    /\ "K" \notin flags(ret.result.castling)

----------------------------------------------------------------------------
(* Properties of the game from the initial position, on SpecOpening        *)

\* C37: in every state of the game from the initial position each colour has
\* exactly one king on the board and no piece of the side to move attacks the
\* king of the side that has just moved; no move apply_move accepts lands on
\* a king.
C37_OneKingEachNeverTaken ==
    /\ \A c \in {"white", "black"} : Cardinality(kings(c)) = 1
    /\ \A s \in kings(opponent(turn)) : ~attacked_by(turn, s[1], s[2])
    /\ applied => taken \notin {"K", "k"}

\* Black, in check from the queen on h5, has answered the check
C37_Witness ==
    /\ applied
    /\ turn = "black"
    /\ at(7, 3) = "Q"
    /\ is_in_check(board, "black")
    /\ ~is_in_check(ret.result.board, "black")

\* the king's home square and the rook's home corner of a castling flag
home_squares(flag) ==
    CASE flag = "K" -> [king |-> <<4, 7, "K">>, rook |-> <<7, 7, "R">>]
      [] flag = "Q" -> [king |-> <<4, 7, "K">>, rook |-> <<0, 7, "R">>]
      [] flag = "k" -> [king |-> <<4, 0, "k">>, rook |-> <<7, 0, "r">>]
      [] flag = "q" -> [king |-> <<4, 0, "k">>, rook |-> <<0, 0, "r">>]

\* C38: in every state of the game from the initial position, for each
\* castling flag the rights string holds, the king of that colour stands on
\* its e-file home square and a rook of that colour on the flag's corner.
C38_RightsImplyHomeSquares ==
    \A flag \in flags(castling) :
        LET h == home_squares(flag)
        IN /\ at(h.king[1], h.king[2]) = h.king[3]
           /\ at(h.rook[1], h.rook[2]) = h.rook[3]

\* the white rook has left h1 and returned: king and rook stand on their home
\* squares, the kingside right is gone and the queenside right is held
C38_Witness ==
    /\ ply >= 4
    /\ at(4, 7) = "K" /\ at(7, 7) = "R"
    /\ "K" \notin flags(castling)
    /\ "Q" \in flags(castling)

\* C39: in every state of the game from the initial position in which the
\* en-passant target is set, the target square is empty, it lies on rank
\* index 5 after a move of White and on rank index 2 after a move of Black,
\* and a pawn of the side that has just moved stands on the target's file one
\* rank beyond it; and a move apply_move accepts as en passant is a pawn's
\* diagonal step onto the empty target that takes the enemy pawn beside the
\* mover and nothing else.
C39_TargetBehindPushedPawn ==
    /\ en_passant # Nil =>
          LET white_moved == turn = "black"
          IN /\ at(en_passant[1], en_passant[2]) = None
             /\ en_passant[2] = (IF white_moved THEN 5 ELSE 2)
             /\ at(en_passant[1], IF white_moved THEN 4 ELSE 3)
                    = (IF white_moved THEN "P" ELSE "p")
    /\ (applied /\ flagged_en_passant) =>
          LET m == call.move
              white == turn = "white"
          IN /\ mover = (IF white THEN "P" ELSE "p")
             /\ Abs(m[3] - m[1]) = 1
             /\ m[4] - m[2] = (IF white THEN -1 ELSE 1)
             /\ <<m[3], m[4]>> = en_passant
             /\ taken = None
             /\ at(m[3], m[2]) = (IF white THEN "p" ELSE "P")
             /\ after(m[3], m[2]) = None
             /\ piece_count(ret.result.board) = piece_count(board) - 1

\* Black has taken the white e-pawn en passant, on e3
C39_Witness ==
    /\ applied
    /\ flagged_en_passant
    /\ turn = "black"
    /\ call.move = Move(3, 4, 4, 5)
    /\ en_passant = <<4, 5>>
    /\ at(4, 4) = "P"
    /\ after(4, 4) = None

----------------------------------------------------------------------------
(* Properties of the move list, on SpecProbe                               *)

\* how often a move occurs in a list of moves
occurrences(moves, m) == Cardinality({i \in 1..Len(moves) : moves[i] = m})

\* the move is a pawn's diagonal step onto the en-passant target, and a piece
\* of the other side stands on the target
takes_on_target(m) ==
    /\ en_passant # Nil
    /\ <<m[3], m[4]>> = en_passant
    /\ kind(at(m[1], m[2])) = "P"
    /\ m[1] # m[3]
    /\ at(m[3], m[4]) # None

\* C40 as the specification states it: legal_moves returns no move twice,
\* also when the en-passant target is occupied by an enemy piece.
C40_AsStated ==
    call.op = "legal_moves" =>
        \A m \in Range(ret) : occurrences(ret, m) = 1

\* C40: legal_moves returns each move once, except a pawn's capture of an
\* enemy piece that stands on the en-passant target, which it returns twice.
C40_OnceUnlessTargetOccupied ==
    call.op = "legal_moves" =>
        \A m \in Range(ret) :
            occurrences(ret, m) = (IF takes_on_target(m) THEN 2 ELSE 1)

\* legal_moves has returned the capture of the knight on the en-passant
\* target d6 twice, and the pawn's push once
C40_Witness ==
    /\ call.op = "legal_moves"
    /\ en_passant = <<3, 2>>
    /\ at(3, 2) = "n"
    /\ occurrences(ret, Move(4, 3, 3, 2)) = 2
    /\ occurrences(ret, Move(4, 3, 4, 2)) = 1

----------------------------------------------------------------------------
(* Properties of the running search, on SpecDescentFair                    *)

\* the activations of minimax on the stack
minimax_frames == Len(call.stack) - 1

\* every call of minimax on the stack was made with the depth of its caller
\* less one, by a caller that had moves to try and, if it is minimax itself,
\* a depth above zero
depth_discipline ==
    /\ call.stack[1].fn = "search_best_move"
    /\ call.stack[1].depth = engine_depth
    /\ \A k \in 2..Len(call.stack) :
          /\ call.stack[k].fn = "minimax"
          /\ call.stack[k].depth = call.stack[k - 1].depth - 1
          /\ ~is_leaf(call.stack[k - 1])
          /\ call.stack[k - 1].moves # <<>>

\* C32 as the specification states it: for every integer depth the recursion
\* is at most depth plies deep.
C32_AsStated ==
    call.op = "search_running" => minimax_frames <= engine_depth

\* the depth discipline of C32, with the bound that holds for every integer
\* depth: the calls of minimax nest at most depth deep when depth is at least
\* one, and one deep when it is zero or negative
C32_DepthDiscipline ==
    call.op = "search_running" =>
        /\ depth_discipline
        /\ minimax_frames <= Max(engine_depth, 1)

\* C32: every call of minimax is made with the depth of its caller reduced by
\* exactly one, no call is made below a frame of minimax with depth <= 0 or
\* without legal moves, the calls nest at most max(depth, 1) deep, and a
\* search that has been called eventually returns its (move, metadata) pair.
C32_SearchTerminates ==
    /\ []C32_DepthDiscipline
    /\ (call.op = "search_running") ~> (call.op = "search_returned")

\* a search of negative depth has returned a move: it called minimax once on
\* each of its moves
C32_Witness ==
    /\ call.op = "search_returned"
    /\ engine_depth < 0
    /\ ret.move # Nil
    /\ ret.meta.nodes = Len(legal_moves(board, turn, castling, en_passant))
    /\ ret.meta.nodes > 1

====
